---- MODULE Spec2Model ----
(***************************************************************************)
(* Bond pricing and return attribution kernel (src/services/bondMath.ts). *)
(*                                                                         *)
(* A JavaScript number is modelled as a decimal fixed-point value: the     *)
(* integer v stands for v / SCALE.  Every arithmetic operation rounds its  *)
(* result to that grid, as an IEEE double rounds every result to 53 bits.  *)
(* NaN, +Infinity and -Infinity are three values outside the finite range. *)
(* Times (tenors, maturities, horizons) are multiples of a quarter year,   *)
(* which both the grid and a double represent exactly.                     *)
(***************************************************************************)
EXTENDS Integers, Sequences, FiniteSets, TLC

VARIABLES
    heap,          \* the caller's curve arrays: reference -> sequence of CurvePoint
    cachedSpline,  \* the module-level interpolant cache of bondMath.ts
    call,          \* the kernel call made last, with its arguments
    ret,           \* what that call returned (or that it threw)
    thr            \* the callers of the interleaved specification

vars == <<heap, cachedSpline, call, ret, thr>>

----------------------------------------------------------------------------
(* Numbers *)

SCALE == 10000
RADIX == 100
PosInf == 2000000000
NegInf == -2000000000
NaN == 2000000001

Finite(a) == a > NegInf /\ a < PosInf

Num(n) == n * SCALE
Quarter == SCALE \div 4

Abs(a) == IF a < 0 THEN -a ELSE a

Neg(a) ==
    IF Finite(a) THEN -a
    ELSE IF a = NaN THEN NaN
    ELSE IF a = PosInf THEN NegInf ELSE PosInf

\* A sum of two finite numbers: out of the finite range it is an infinity.
AddFx(a, b) ==
    IF a > 0 /\ b >= PosInf - a THEN PosInf
    ELSE IF a < 0 /\ b <= NegInf - a THEN NegInf
    ELSE a + b

Add(a, b) ==
    IF Finite(a) /\ Finite(b) THEN AddFx(a, b)
    ELSE IF a = NaN \/ b = NaN THEN NaN
    ELSE IF Finite(a) THEN b
    ELSE IF Finite(b) THEN a
    ELSE IF a = b THEN a ELSE NaN

Sub(a, b) == Add(a, Neg(b))

\* Comparisons: every comparison with NaN is false.
Lt(a, b) == a # NaN /\ b # NaN /\ a < b
Gt(a, b) == a # NaN /\ b # NaN /\ a > b
Leq(a, b) == a # NaN /\ b # NaN /\ a <= b
Geq(a, b) == a # NaN /\ b # NaN /\ a >= b

Sign(a) == IF a < 0 THEN -1 ELSE 1

\* a * b / SCALE rounded to nearest (a half towards +Infinity), an infinity
\* out of the finite range.  Both magnitudes are split at the point, a1.a0
\* and b1.b0, so that no partial product leaves the machine integers: whole
\* is the product without a0 * b0, tail is a0 * b0.
MulRound(whole, tail, negative) ==
    IF negative
    THEN (IF whole >= PosInf THEN NegInf
          ELSE -AddFx(whole, (2 * tail + SCALE - 1) \div (2 * SCALE)))
    ELSE (IF whole >= PosInf THEN PosInf
          ELSE AddFx(whole, (2 * tail + SCALE) \div (2 * SCALE)))

MulParts(a1, a0, b1, b0, negative) ==
    IF a1 > 0 /\ b1 > (PosInf \div SCALE) \div a1
    THEN (IF negative THEN NegInf ELSE PosInf)
    ELSE MulRound(AddFx(AddFx(a1 * b1 * SCALE, a1 * b0), a0 * b1), a0 * b0, negative)

MulFx(a, b) ==
    MulParts(Abs(a) \div SCALE, Abs(a) % SCALE, Abs(b) \div SCALE, Abs(b) % SCALE,
             (a < 0) # (b < 0))

Mul(a, b) ==
    IF Finite(a) /\ Finite(b) THEN MulFx(a, b)
    ELSE IF a = NaN \/ b = NaN THEN NaN
    ELSE IF a = 0 \/ b = 0 THEN NaN
    ELSE IF Sign(a) = Sign(b) THEN PosInf ELSE NegInf

\* a * SCALE / b for b > 0, rounded to nearest, by long division in RADIX:
\* r0 is the remainder of a / b, r1 the remainder of the first digit.
DivDigit2(a, b, r0, r1) ==
    (a \div b) * SCALE + ((r0 * RADIX) \div b) * RADIX + (r1 * RADIX + b \div 2) \div b
DivDigit1(a, b, r0) == DivDigit2(a, b, r0, (r0 * RADIX) % b)
\* A divisor too large for the long division is cut, with the dividend, by
\* one RADIX digit; a quotient out of the finite range is an infinity.
DivFx(a, b) ==
    IF Abs(a) \div b >= PosInf \div SCALE THEN (IF a < 0 THEN NegInf ELSE PosInf)
    ELSE IF b > PosInf \div RADIX
    THEN DivDigit1(a \div RADIX, b \div RADIX, (a \div RADIX) % (b \div RADIX))
    ELSE DivDigit1(a, b, a % b)

\* A division that answers 0 where the divisor is 0.
DivZeroIsZero(a, b) ==
    IF b = 0 THEN 0
    ELSE IF Finite(a) /\ Finite(b) THEN (IF b > 0 THEN DivFx(a, b) ELSE DivFx(-a, -b))
    ELSE IF a = NaN \/ b = NaN THEN NaN
    ELSE IF Finite(a) THEN 0
    ELSE IF ~Finite(b) THEN NaN
    ELSE IF Sign(a) = Sign(b) THEN PosInf ELSE NegInf

Div(a, b) ==
    IF Finite(a) /\ Finite(b)
    THEN IF b > 0 THEN DivFx(a, b)
         ELSE IF b < 0 THEN DivFx(-a, -b)
         ELSE IF a = 0 THEN NaN
         ELSE IF a > 0 THEN PosInf ELSE NegInf
    ELSE IF a = NaN \/ b = NaN THEN NaN
    ELSE IF Finite(a) THEN 0
    ELSE IF ~Finite(b) THEN NaN
    ELSE IF Sign(a) = Sign(b) THEN PosInf ELSE NegInf

\* The integer square root of n >= 0 by Newton's iteration from g >= sqrt(n).
RECURSIVE ISqrt(_, _)
ISqrt(n, g) ==
    LET g2 == (g + n \div g) \div 2
    IN  IF g2 >= g THEN g ELSE ISqrt(n, g2)

\* sqrt(1 + q*q) for 0 <= q <= 1.
SqrtOnePlusSq(q) == ISqrt((SCALE + MulFx(q, q)) * SCALE, 2 * SCALE)

\* Math.hypot: scaled by the larger magnitude, so it cannot overflow.
Hypot(a, b) ==
    IF a = NaN \/ b = NaN THEN (IF ~Finite(a) /\ a # NaN THEN PosInf
                               ELSE IF ~Finite(b) /\ b # NaN THEN PosInf ELSE NaN)
    ELSE IF ~Finite(a) \/ ~Finite(b) THEN PosInf
    ELSE LET hi == IF Abs(a) >= Abs(b) THEN Abs(a) ELSE Abs(b)
             lo == IF Abs(a) >= Abs(b) THEN Abs(b) ELSE Abs(a)
         IN  IF hi = 0 THEN 0 ELSE MulFx(hi, SqrtOnePlusSq(DivFx(lo, hi)))

----------------------------------------------------------------------------
(* Arrays: JavaScript indexes from 0; a read outside the array gives       *)
(* undefined, which arithmetic turns into NaN.                             *)

Idx(s, i) == IF i + 1 \in DOMAIN s THEN s[i + 1] ELSE NaN
Put(s, i, v) == [s EXCEPT ![i + 1] = v]

----------------------------------------------------------------------------
(* MonotoneCubicSpline *)

\* new Array(n - 1) raises RangeError for n = 0.
ConstructorThrows(xs) == Len(xs) - 1 < 0

Secants(xs, ys) ==
    [i \in 1..(Len(xs) - 1) |-> Div(Sub(ys[i + 1], ys[i]), Sub(xs[i + 1], xs[i]))]

\* The tangents before the monotonicity pass.
RawTangents(ms, n) ==
    [i \in 1..n |->
        IF i = 1 THEN Idx(ms, 0)
        ELSE IF i = n THEN Idx(ms, n - 2)
        ELSE Div(Add(ms[i - 1], ms[i]), Num(2))]

\* The monotonicity loop's iteration without the rescaling onto the circle
\* of radius 3.
FixIntervalNoClamp(ms, ks, i) ==
    LET m == Idx(ms, i)
    IN  IF m = 0 THEN Put(Put(ks, i, 0), i + 1, 0)
        ELSE LET alpha == Div(Idx(ks, i), m)
                 beta == Div(Idx(ks, i + 1), m)
                 k1 == IF Lt(alpha, 0) THEN Put(ks, i, 0) ELSE ks
             IN  IF Lt(beta, 0) THEN Put(k1, i + 1, 0) ELSE k1

\* One iteration of the monotonicity loop, for interval i (0-based).
FixInterval(ms, ks, i) ==
    LET m == Idx(ms, i)
    IN  IF m = 0 THEN Put(Put(ks, i, 0), i + 1, 0)
        ELSE LET alpha == Div(Idx(ks, i), m)
                 beta == Div(Idx(ks, i + 1), m)
                 k1 == IF Lt(alpha, 0) THEN Put(ks, i, 0) ELSE ks
                 k2 == IF Lt(beta, 0) THEN Put(k1, i + 1, 0) ELSE k1
                 h == Hypot(alpha, beta)
             IN  IF Gt(h, Num(3))
                 THEN LET t == Div(Num(3), h)
                      IN  Put(Put(k2, i, Mul(Mul(alpha, t), m)),
                              i + 1, Mul(Mul(beta, t), m))
                 ELSE k2

\* The monotonicity pass stopping after the interval it starts at.
FixTangentsOnce(ms, ks, i) ==
    IF i >= Len(ks) - 1 THEN ks
    ELSE FixInterval(ms, ks, i)

RECURSIVE FixTangents(_, _, _)
FixTangents(ms, ks, i) ==
    IF i >= Len(ks) - 1 THEN ks
    ELSE FixTangents(ms, FixInterval(ms, ks, i), i + 1)

\* The tangents when the monotonicity loop reaches interval i (0-based), the
\* intervals before it processed.
RECURSIVE TangentsAt(_, _, _)
TangentsAt(ms, n, i) ==
    IF i = 0 THEN RawTangents(ms, n)
    ELSE FixInterval(ms, TangentsAt(ms, n, i - 1), i - 1)

\* The constructor without the monotonicity pass.
MonotoneCubicSplineRaw(xs, ys) ==
    [xs |-> xs, ys |-> ys, ks |-> RawTangents(Secants(xs, ys), Len(xs))]

\* The constructor, for n >= 1 points.
MonotoneCubicSpline(xs, ys) ==
    LET ms == Secants(xs, ys)
    IN  [xs |-> xs, ys |-> ys, ks |-> FixTangents(ms, RawTangents(ms, Len(xs)), 0)]

\* The interval the linear search of at() stops at: the first j with
\* xs[j] <= x <= xs[j+1], and 0 when there is none.
RECURSIVE FindInterval(_, _, _)
FindInterval(xs, x, j) ==
    IF j >= Len(xs) - 1 THEN 0
    ELSE IF Geq(x, Idx(xs, j)) /\ Leq(x, Idx(xs, j + 1)) THEN j
    ELSE FindInterval(xs, x, j + 1)

\* Hermite with the coefficient of t2 in h10 mistyped.
HermiteBadBasis(y0, y1, k0, k1, h, t) ==
    LET t2 == Mul(t, t)
        t3 == Mul(t2, t)
        h00 == Add(Sub(Mul(Num(2), t3), Mul(Num(3), t2)), Num(1))
        h10 == Add(Sub(t3, t2), t)
        h01 == Add(Mul(Num(-2), t3), Mul(Num(3), t2))
        h11 == Sub(t3, t2)
    IN  Add(Add(Add(Mul(h00, y0), Mul(Mul(h10, h), k0)), Mul(h01, y1)),
            Mul(Mul(h11, h), k1))

\* The cubic Hermite value on an interval of width h at the fraction t.
Hermite(y0, y1, k0, k1, h, t) ==
    LET t2 == Mul(t, t)
        t3 == Mul(t2, t)
        h00 == Add(Sub(Mul(Num(2), t3), Mul(Num(3), t2)), Num(1))
        h10 == Add(Sub(t3, Mul(Num(2), t2)), t)
        h01 == Add(Mul(Num(-2), t3), Mul(Num(3), t2))
        h11 == Sub(t3, t2)
    IN  Add(Add(Add(Mul(h00, y0), Mul(Mul(h10, h), k0)), Mul(h01, y1)),
            Mul(Mul(h11, h), k1))

InRange(spline, x) ==
    LET i == FindInterval(spline.xs, x, 0)
        h == Sub(Idx(spline.xs, i + 1), Idx(spline.xs, i))
        t == Div(Sub(x, Idx(spline.xs, i)), h)
    IN  Hermite(Idx(spline.ys, i), Idx(spline.ys, i + 1),
                Idx(spline.ks, i), Idx(spline.ks, i + 1), h, t)

\* at() extrapolating along the endpoint tangents instead of flat.
atLinearExtrapolation(spline, x) ==
    LET xs == spline.xs
        ys == spline.ys
        ks == spline.ks
        n == Len(xs)
    IN  IF Leq(x, Idx(xs, 0))
        THEN Add(Idx(ys, 0), Mul(Idx(ks, 0), Sub(x, Idx(xs, 0))))
        ELSE IF Geq(x, Idx(xs, n - 1))
        THEN Add(Idx(ys, n - 1), Mul(Idx(ks, n - 1), Sub(x, Idx(xs, n - 1))))
        ELSE InRange(spline, x)

at(spline, x) ==
    LET xs == spline.xs
        ys == spline.ys
        n == Len(xs)
    IN  IF Leq(x, Idx(xs, 0)) THEN Idx(ys, 0)
        ELSE IF Geq(x, Idx(xs, n - 1)) THEN Idx(ys, n - 1)
        ELSE InRange(spline, x)

----------------------------------------------------------------------------
(* interpolateRate and its cache *)

Point(tenor, rate) == [tenor |-> tenor, rate |-> rate]

\* [...curve].sort((a, b) => a.tenor - b.tenor): a stable sort of a copy.
RECURSIVE InsertByTenor(_, _)
InsertByTenor(p, s) ==
    IF s = <<>> THEN <<p>>
    ELSE IF Lt(p.tenor, Head(s).tenor) THEN <<p>> \o s
    ELSE <<Head(s)>> \o InsertByTenor(p, Tail(s))

RECURSIVE SortByTenor(_)
SortByTenor(s) ==
    IF s = <<>> THEN <<>>
    ELSE InsertByTenor(s[Len(s)], SortByTenor(SubSeq(s, 1, Len(s) - 1)))

Tenors(s) == [i \in 1..Len(s) |-> s[i].tenor]
Rates(s) == [i \in 1..Len(s) |-> s[i].rate]

\* The spline built from the points in the caller's order.
BuildSplineUnsorted(points) == MonotoneCubicSpline(Tenors(points), Rates(points))

BuildSpline(points) ==
    LET sorted == SortByTenor(points)
    IN  MonotoneCubicSpline(Tenors(sorted), Rates(sorted))

NoSpline == [xs |-> <<>>, ys |-> <<>>, ks |-> <<>>]
NoCache == [curve |-> "null", spline |-> NoSpline]

CacheMiss(cache, ref) == cache.curve = "null" \/ cache.curve # ref

\* interpolateRate(curve, t) for the array `ref` holding `points`, entered with
\* the cache `cache`: the cache it leaves, the value it returns, whether it threw.
interpolateRate(cache, points, ref, t) ==
    IF CacheMiss(cache, ref)
    THEN IF ConstructorThrows(points)
         THEN [cache |-> cache, value |-> NaN, thrown |-> TRUE]
         ELSE LET spline == BuildSpline(points)
              IN  [cache |-> [curve |-> ref, spline |-> spline],
                   value |-> at(spline, t), thrown |-> FALSE]
    ELSE [cache |-> cache, value |-> at(cache.spline, t), thrown |-> FALSE]

----------------------------------------------------------------------------
(* Math.pow and Math.ceil *)

Ln2 == 6931               \* ln 2 on the grid
SqrtHalf == 7071          \* sqrt(1/2) on the grid
SqrtTwo == 14142          \* sqrt(2) on the grid
MaxExpArg == 120000       \* e^12 is the largest power the finite range holds

\* ln x for x in [sqrt(1/2), sqrt(2)]: 2 atanh z = 2 (z + z^3/3 + z^5/5),
\* z = (x - 1) / (x + 1).
LnTerms(z, z3, z5) == 2 * z + (2 * z3 + 1) \div 3 + (2 * z5 + 2) \div 5
LnCubed(z, z2, z3) == LnTerms(z, z3, MulFx(z3, z2))
LnSquared(z, z2) == LnCubed(z, z2, MulFx(z2, z))
LnAtanh(z) == LnSquared(z, MulFx(z, z))
LnSeries(x) == LnAtanh(DivFx(x - SCALE, x + SCALE))

\* x halved k times, each time rounded up: the least integer >= x / 2^k.
Halved(x, k) == (x + 2^k - 1) \div 2^k

\* How often x > sqrt(2) is halved to come into the series' range.
Halvings(x) ==
    CHOOSE k \in 1..18 : Halved(x, k) <= SqrtTwo /\ Halved(x, k - 1) > SqrtTwo

\* How often x < sqrt(1/2) is doubled to come into the series' range.
Doublings(x) ==
    CHOOSE k \in 1..13 : x * 2^k >= SqrtHalf /\ x * 2^(k - 1) < SqrtHalf

LnHalved(x, k) == k * Ln2 + LnSeries(Halved(x, k))
LnDoubled(x, k) == LnSeries(x * 2^k) - k * Ln2

\* ln x for finite x > 0: halved or doubled into the series' range.
LnFx(x) ==
    IF x > SqrtTwo THEN LnHalved(x, Halvings(x))
    ELSE IF x < SqrtHalf THEN LnDoubled(x, Doublings(x))
    ELSE LnSeries(x)

\* x * 2^k, halving with rounding for k < 0.
Times2(x, k) == IF k >= 0 THEN x * 2^k ELSE Halved(x, -k)

\* e^r for |r| <= ln(2) / 2: the series to the fifth power.
ExpTerms(r, r2, r3, r4, r5) ==
    SCALE + r + (r2 + 1) \div 2 + (r3 + 3) \div 6 + (r4 + 12) \div 24 + (r5 + 60) \div 120
ExpFourth(r, r2, r3, r4) == ExpTerms(r, r2, r3, r4, MulFx(r4, r))
ExpCubed(r, r2, r3) == ExpFourth(r, r2, r3, MulFx(r3, r))
ExpSquared(r, r2) == ExpCubed(r, r2, MulFx(r2, r))
ExpSeries(r) == ExpSquared(r, MulFx(r, r))

\* e^v for |v| <= MaxExpArg: v = k ln 2 + r, the series in r, then 2^k.
ExpReduced(v, k) == Times2(ExpSeries(v - k * Ln2), k)
ExpFx(v) == ExpReduced(v, (2 * v + Ln2) \div (2 * Ln2))

IsInteger(e) == e % SCALE = 0
IsOdd(e) == (e \div SCALE) % 2 = 1

\* e^v, out of the finite range for large |v|.
ExpClamped(v) ==
    IF v > MaxExpArg THEN PosInf
    ELSE IF v < -MaxExpArg THEN 0
    ELSE ExpFx(v)

\* b^e for finite b > 0 and finite e.
PowPos(b, e) == IF b = SCALE THEN SCALE ELSE ExpClamped(MulFx(LnFx(b), e))

\* b^e for finite b # 0 and finite e # 0, from p = |b|^e.
PowSigned(b, e, p) ==
    IF b > 0 THEN p
    ELSE IF ~IsInteger(e) THEN NaN
    ELSE IF IsOdd(e) THEN Neg(p) ELSE p

\* Math.pow(b, e).
Pow(b, e) ==
    IF e = 0 THEN SCALE
    ELSE IF b = NaN \/ e = NaN THEN NaN
    ELSE IF ~Finite(e)
         THEN IF Abs(b) = SCALE THEN NaN
              ELSE IF (Abs(b) > SCALE) = (e = PosInf) THEN PosInf ELSE 0
    ELSE IF b = PosInf THEN (IF e > 0 THEN PosInf ELSE 0)
    ELSE IF b = NegInf
         THEN IF e < 0 THEN 0
              ELSE IF IsInteger(e) /\ IsOdd(e) THEN NegInf ELSE PosInf
    ELSE IF b = 0 THEN (IF e > 0 THEN 0 ELSE PosInf)
    ELSE PowSigned(b, e, PowPos(Abs(b), e))

\* Math.floor in its place.
Floor(a) == a \div SCALE

\* Math.ceil of a finite number, as an integer count.
Ceil(a) == -((-a) \div SCALE)

----------------------------------------------------------------------------
(* solveForYTM *)

InitialGuess == 500       \* y = 0.05
maxIterLonger == 5 * 5    \* five iterations more
maxIter == 20
tolLoose == Num(100)      \* a tolerance of a whole bond's price
tol == 1                  \* 1e-8, which on the grid is its smallest step

AbsN(a) == IF Finite(a) THEN Abs(a) ELSE IF a = NaN THEN NaN ELSE PosInf

\* cf.amount * Math.pow(base, -periods), periods being cf.t * frequency.
FlowValue(cf, frequency, base) ==
    Mul(cf.amount, Pow(base, Neg(Mul(cf.t, frequency))))

\* cf.amount * cf.t * Math.pow(base, -periods - 1)
FlowSlope(cf, frequency, base) ==
    Mul(Mul(cf.amount, cf.t), Pow(base, Sub(Neg(Mul(cf.t, frequency)), Num(1))))

\* f, the price of the cash flows at the periodic yield behind `base`: the
\* inner loop from flow k with the sum f so far.  NaN stays NaN.
RECURSIVE SumF(_, _, _, _, _)
SumF(cashFlows, frequency, base, k, f) ==
    IF k > Len(cashFlows) \/ f = NaN THEN f
    ELSE SumF(cashFlows, frequency, base, k + 1,
              Add(f, FlowValue(cashFlows[k], frequency, base)))

\* df, its derivative with respect to y.
RECURSIVE SumDF(_, _, _, _, _)
SumDF(cashFlows, frequency, base, k, df) ==
    IF k > Len(cashFlows) \/ df = NaN THEN df
    ELSE SumDF(cashFlows, frequency, base, k + 1,
               Sub(df, FlowSlope(cashFlows[k], frequency, base)))

\* The solver before its first iteration: the estimate y, how often f was
\* evaluated, the exit taken ("running" while the loop goes on), and the
\* estimates f was evaluated at, in order.
NewtonStart == [y |-> InitialGuess, evals |-> 0, exit |-> "running", trace |-> <<>>]

\* The report of an iteration that evaluated f at s.y and left with y.
Evaluated(s, y, exit) ==
    [y |-> y, evals |-> s.evals + 1, exit |-> exit, trace |-> Append(s.trace, s.y)]

\* The iteration without the test for a zero derivative.
NewtonStepDividing(s, diff, df) ==
    IF Lt(AbsN(diff), tol) THEN Evaluated(s, s.y, "converged")
    ELSE Evaluated(s, Sub(s.y, Div(diff, df)), "running")

\* The rest of an iteration once diff = f - targetPrice and df are summed.
NewtonStep(s, diff, df) ==
    IF Lt(AbsN(diff), tol) THEN Evaluated(s, s.y, "converged")
    ELSE IF df = 0 THEN Evaluated(s, s.y, "zeroDerivative")
    ELSE Evaluated(s, Sub(s.y, Div(diff, df)), "running")

\* One pass through the loop body, base being 1 + y / frequency.
NewtonIteration(cashFlows, targetPrice, frequency, s, base) ==
    NewtonStep(s, Sub(SumF(cashFlows, frequency, base, 1, 0), targetPrice),
               SumDF(cashFlows, frequency, base, 1, 0))

\* Up to n passes through the loop body from s, ended early by a return or a
\* break.  The passes are taken half by half, which keeps the evaluation
\* shallow; the passes and their order are those of the for loop.
RECURSIVE NewtonLoop(_, _, _, _, _)
NewtonLoop(cashFlows, targetPrice, frequency, s, n) ==
    IF s.exit # "running" \/ n = 0 THEN s
    ELSE IF n = 1
    THEN NewtonIteration(cashFlows, targetPrice, frequency, s,
                         Add(Num(1), Div(s.y, frequency)))
    ELSE NewtonLoop(cashFlows, targetPrice, frequency,
                    NewtonLoop(cashFlows, targetPrice, frequency, s, n \div 2),
                    n - n \div 2)

\* return y after the loop: the exit of a loop that used up its iterations.
AfterLoop(s) == IF s.exit = "running" THEN [s EXCEPT !.exit = "maxIter"] ELSE s

solveForYTM(cashFlows, targetPrice, frequency) ==
    AfterLoop(NewtonLoop(cashFlows, targetPrice, frequency, NewtonStart, maxIter))

----------------------------------------------------------------------------
(* calculateBondPrice *)

\* A call's progress through the kernel: the cache it has left so far, whether
\* an interpolateRate call threw, and how many interpolateRate calls it made.
Enter0(cache) == [cache |-> cache, thrown |-> FALSE, reads |-> 0]

MaturedResult(faceValue) ==
    [cleanPrice |-> faceValue, dirtyPrice |-> faceValue, accruedInterest |-> 0,
     yieldToMaturity |-> 0, duration |-> 0, convexity |-> 0]

\* if (remainingTTM < 0): the test without its boundary.
MaturedStrictly(remainingTTM) == Lt(remainingTTM, 0)

\* if (remainingTTM <= 0)
Matured(remainingTTM) == Leq(remainingTTM, 0)

couponAmountOf(bond) ==
    Div(Mul(Div(bond.couponRate, Num(100)), bond.faceValue), bond.frequency)

\* The body of the discounting loop after interpolateRate returned ir for the
\* flow at t: the flow pushed, and its present value pv added to the sums.
DiscountFlow(acc, t, cashFlow, ir, pv) ==
    [cache |-> ir.cache,
     thrown |-> ir.thrown,
     reads |-> acc.reads + 1,
     cashFlows |-> Append(acc.cashFlows, [t |-> t, amount |-> cashFlow]),
     pvCashFlows |-> Add(acc.pvCashFlows, pv),
     macacaulayDurationSum |-> Add(acc.macacaulayDurationSum, Mul(t, pv)),
     convexitySum |-> Add(acc.convexitySum, Mul(Mul(t, Add(t, Num(1))), pv))]

\* The flow discounted with simple interest: cashFlow / (1 + r * t).
PresentValueSimple(t, cashFlow, ir) ==
    Div(cashFlow, Add(Num(1), Mul(Div(ir.value, Num(100)), t)))

\* r = interpolateRate(curve, t) / 100; df = Math.pow(1 + r, -t); pv = cashFlow * df
PresentValue(t, cashFlow, ir) ==
    Mul(cashFlow, Pow(Add(Num(1), Div(ir.value, Num(100))), Neg(t)))

DiscountStep(acc, t, cashFlow, ir) ==
    DiscountFlow(acc, t, cashFlow, ir, PresentValue(t, cashFlow, ir))

\* The discounting loop from flow i: acc carries the sums, the flows pushed
\* and the progress.  A throw of interpolateRate ends the loop.
RECURSIVE DiscountLoop(_, _, _, _, _, _, _, _)
DiscountLoop(acc, bond, points, ref, timeToNextCoupon, periodLength, periodsRemaining, i) ==
    IF i >= periodsRemaining \/ acc.thrown THEN acc
    ELSE LET t == Add(timeToNextCoupon, Mul(Num(i), periodLength))
             isMaturity == i = periodsRemaining - 1
             cashFlow == Add(couponAmountOf(bond), IF isMaturity THEN bond.faceValue ELSE 0)
         IN  DiscountLoop(DiscountStep(acc, t, cashFlow,
                                       interpolateRate(acc.cache, points, ref, t)),
                          bond, points, ref, timeToNextCoupon, periodLength,
                          periodsRemaining, i + 1)

\* The BondResult from the loop's sums and the solver's report.
BondResult(acc, bond, accruedInterest, solved) ==
    [cache |-> acc.cache, thrown |-> FALSE, reads |-> acc.reads,
     result |->
        [cleanPrice |-> Sub(acc.pvCashFlows, accruedInterest),
         dirtyPrice |-> acc.pvCashFlows,
         accruedInterest |-> accruedInterest,
         yieldToMaturity |-> Mul(solved.y, Num(100)),
         duration |-> Div(acc.macacaulayDurationSum, acc.pvCashFlows),
         convexity |-> Div(acc.convexitySum,
                           Mul(acc.pvCashFlows,
                               Pow(Add(Num(1), Div(solved.y, bond.frequency)), Num(2))))],
     cashFlows |-> acc.cashFlows, matured |-> FALSE,
     exit |-> solved.exit, evals |-> solved.evals,
     y |-> solved.y, trace |-> solved.trace]

\* What follows the loop: nothing if interpolateRate threw, else the solver
\* on the flows pushed, with the dirty price as its target.
AfterDiscountLoop(acc, bond, accruedInterest) ==
    IF acc.thrown
    THEN [cache |-> acc.cache, thrown |-> TRUE, reads |-> acc.reads,
          result |-> MaturedResult(0),
          cashFlows |-> acc.cashFlows, matured |-> FALSE, exit |-> "none", evals |-> 0,
          y |-> 0, trace |-> <<>>]
    ELSE BondResult(acc, bond, accruedInterest,
                    solveForYTM(acc.cashFlows, acc.pvCashFlows, bond.frequency))

\* calculateBondPrice(bond, curve, settlementShift) for the array `ref` holding
\* `points`, entered with the progress `in`: the progress it leaves and the
\* BondResult (with the cash flows and the solver's report, for the claims).
calculateBondPrice(in, bond, points, ref, settlementShift) ==
    LET remainingTTM == Sub(bond.maturityYears, settlementShift)
    IN  IF Matured(remainingTTM)
        THEN [cache |-> in.cache, thrown |-> in.thrown, reads |-> in.reads,
              result |-> MaturedResult(bond.faceValue),
              cashFlows |-> <<>>, matured |-> TRUE, exit |-> "none", evals |-> 0,
              y |-> 0, trace |-> <<>>]
        ELSE
        LET periodLength == Div(Num(1), bond.frequency)
            periodsRemaining == Ceil(Mul(remainingTTM, bond.frequency))
            timeToNextCoupon == Sub(remainingTTM, Mul(Num(periodsRemaining - 1), periodLength))
            timeSinceLastCoupon == Sub(periodLength, timeToNextCoupon)
            accruedInterest == Mul(Div(timeSinceLastCoupon, periodLength),
                                   couponAmountOf(bond))
        IN  AfterDiscountLoop(
                DiscountLoop([cache |-> in.cache, thrown |-> in.thrown,
                              reads |-> in.reads, cashFlows |-> <<>>,
                              pvCashFlows |-> 0, macacaulayDurationSum |-> 0,
                              convexitySum |-> 0],
                             bond, points, ref, timeToNextCoupon, periodLength,
                             periodsRemaining, 0),
                bond, accruedInterest)

----------------------------------------------------------------------------
(* calculateTotalReturn *)

Progress(r) == [cache |-> r.cache, thrown |-> r.thrown, reads |-> r.reads]

\* interpolateRate inside a call that may already have thrown.
InterpResult(in, ir) ==
    [cache |-> ir.cache, thrown |-> ir.thrown, reads |-> in.reads + 1, value |-> ir.value]

Interp(in, points, ref, t) ==
    IF in.thrown THEN [cache |-> in.cache, thrown |-> TRUE, reads |-> in.reads, value |-> NaN]
    ELSE InterpResult(in, interpolateRate(in.cache, points, ref, t))

\* The body of the income loop for a coupon paid at or before the horizon,
\* ir being the reinvestment rate read (no read for a coupon at the horizon).
IncomeStep(acc, couponAmount, reinvested, timeToReinvest, ir) ==
    [cache |-> ir.cache, thrown |-> ir.thrown, reads |-> ir.reads,
     totalCoupons |-> Add(acc.totalCoupons, couponAmount),
     reinvestmentIncome |->
         IF reinvested
         THEN Add(acc.reinvestmentIncome,
                  Sub(Mul(couponAmount,
                          Pow(Add(Num(1), Div(ir.value, Num(100))), timeToReinvest)),
                      couponAmount))
         ELSE acc.reinvestmentIncome,
     counted |-> acc.counted + 1,
     compounded |-> acc.compounded + (IF reinvested THEN 1 ELSE 0)]

\* The test without the coupon paid at the horizon.
CouponCountedBeforeHorizon(t, horizonYears) == Gt(t, 0) /\ Lt(t, horizonYears)

\* if (t > 0 && t <= horizonYears)
CouponCounted(t, horizonYears) == Gt(t, 0) /\ Leq(t, horizonYears)

\* The income loop from coupon i of the bond's schedule from issue.
RECURSIVE IncomeLoop(_, _, _, _, _, _, _, _)
IncomeLoop(acc, bond, pointsT1, refT1, horizonYears, firstCouponTime, periodsTotal, i) ==
    IF i >= periodsTotal \/ acc.thrown THEN acc
    ELSE LET periodLength == Div(Num(1), bond.frequency)
             t == Add(firstCouponTime, Mul(Num(i), periodLength))
             counted == CouponCounted(t, horizonYears)
             timeToReinvest == Sub(horizonYears, t)
             reinvested == Gt(timeToReinvest, 0)
         IN  IncomeLoop(IF ~counted THEN acc
                        ELSE IncomeStep(acc, couponAmountOf(bond), reinvested, timeToReinvest,
                                        IF reinvested
                                        THEN Interp(Progress(acc), pointsT1, refT1,
                                                    timeToReinvest)
                                        ELSE [cache |-> acc.cache, thrown |-> acc.thrown,
                                              reads |-> acc.reads, value |-> 0]),
                        bond, pointsT1, refT1, horizonYears, firstCouponTime,
                        periodsTotal, i + 1)

\* The shift added to the first node only.
ParallelCurveFirstNode(pointsT0, shift) ==
    [i \in 1..Len(pointsT0) |->
        Point(pointsT0[i].tenor,
              IF i = 1 THEN Add(pointsT0[i].rate, shift) ELSE pointsT0[i].rate)]

\* curveT0.map(p => ({ ...p, rate: p.rate + shift })): a new array.
ParallelCurve(pointsT0, shift) ==
    [i \in 1..Len(pointsT0) |-> Point(pointsT0[i].tenor, Add(pointsT0[i].rate, shift))]

\* shapeDiff taken against the rolldown price instead of the parallel price.
DecompositionShapeFromRolldown(startPriceDirty, endPriceDirty, priceRolldownDirty, priceParallelDirty) ==
    [rolldownDiff |-> Sub(priceRolldownDirty, startPriceDirty),
     durationDiff |-> Sub(priceParallelDirty, priceRolldownDirty),
     shapeDiff |-> Sub(endPriceDirty, priceRolldownDirty)]

\* The three price differences of the decomposition.
Decomposition(startPriceDirty, endPriceDirty, priceRolldownDirty, priceParallelDirty) ==
    [rolldownDiff |-> Sub(priceRolldownDirty, startPriceDirty),
     durationDiff |-> Sub(priceParallelDirty, priceRolldownDirty),
     shapeDiff |-> Sub(endPriceDirty, priceParallelDirty)]

\* Percent of the start price.
Component(amount, startPriceDirty) == Mul(Div(amount, startPriceDirty), Num(100))

\* Annualizing at every horizon.
AnnualizesAlways(horizonYears) == TRUE

\* if (horizonYears > 1)
Annualizes(horizonYears) == Gt(horizonYears, Num(1))

\* The returns and components, from the prices, the income and the three
\* differences d; last is the progress the call ends with.
TotalReturnResult(last, horizonYears, startPriceDirty, endPriceDirty, income, priceRolldownDirty, priceParallelDirty, d, totalReturnAbs, shift, shifted, endFlows) ==
    [cache |-> last.cache, thrown |-> last.thrown, reads |-> last.reads,
     result |->
        [startPriceDirty |-> startPriceDirty,
         endPriceDirty |-> endPriceDirty,
         couponIncome |-> income.totalCoupons,
         reinvestmentIncome |-> income.reinvestmentIncome,
         totalReturnAbs |-> Mul(totalReturnAbs, Num(100)),
         totalReturnAnnualized |->
            Mul(IF Annualizes(horizonYears)
                THEN Sub(Pow(Add(Num(1), totalReturnAbs), Div(Num(1), horizonYears)),
                         Num(1))
                ELSE totalReturnAbs,
                Num(100)),
         priceReturnComponent |->
            Component(Sub(endPriceDirty, startPriceDirty), startPriceDirty),
         couponReturnComponent |-> Component(income.totalCoupons, startPriceDirty),
         reinvestmentReturnComponent |->
            Component(income.reinvestmentIncome, startPriceDirty),
         rolldownReturnComponent |-> Component(d.rolldownDiff, startPriceDirty),
         durationReturnComponent |-> Component(d.durationDiff, startPriceDirty),
         convexityShapeReturnComponent |-> Component(d.shapeDiff, startPriceDirty)],
     priceRolldownDirty |-> priceRolldownDirty,
     priceParallelDirty |-> priceParallelDirty,
     rolldownDiff |-> d.rolldownDiff,
     durationDiff |-> d.durationDiff,
     shapeDiff |-> d.shapeDiff,
     totalReturn |-> totalReturnAbs,
     shift |-> shift,
     shifted |-> shifted,
     counted |-> income.counted,
     compounded |-> income.compounded,
     endFlows |-> endFlows]

\* Attribution with a total that leaves the coupons out.
AttributionWithoutCoupons(last, horizonYears, t0Result, t1Result, income, priceRolldownDirty, priceParallelDirty, shift, shifted) ==
    TotalReturnResult(last, horizonYears,
                      t0Result.result.dirtyPrice, t1Result.result.dirtyPrice, income,
                      priceRolldownDirty, priceParallelDirty,
                      Decomposition(t0Result.result.dirtyPrice, t1Result.result.dirtyPrice,
                                    priceRolldownDirty, priceParallelDirty),
                      Div(Sub(Add(t1Result.result.dirtyPrice, income.reinvestmentIncome),
                              t0Result.result.dirtyPrice),
                          t0Result.result.dirtyPrice),
                      shift, shifted, Len(t1Result.cashFlows))

\* "C. Components Calculation" and "Totals", from the four prices on.
Attribution(last, horizonYears, t0Result, t1Result, income, priceRolldownDirty, priceParallelDirty, shift, shifted) ==
    TotalReturnResult(last, horizonYears,
                      t0Result.result.dirtyPrice, t1Result.result.dirtyPrice, income,
                      priceRolldownDirty, priceParallelDirty,
                      Decomposition(t0Result.result.dirtyPrice, t1Result.result.dirtyPrice,
                                    priceRolldownDirty, priceParallelDirty),
                      Div(Sub(Add(Add(t1Result.result.dirtyPrice, income.totalCoupons),
                                  income.reinvestmentIncome),
                              t0Result.result.dirtyPrice),
                          t0Result.result.dirtyPrice),
                      shift, shifted, Len(t1Result.cashFlows))

\* An exception thrown inside a step leaves calculateTotalReturn there: the
\* progress of the step r that threw, and no result.
NoPrice == [result |-> MaturedResult(0), cashFlows |-> <<>>]
NoIncome == [totalCoupons |-> 0, reinvestmentIncome |-> 0, counted |-> 0, compounded |-> 0]
Rethrown(r) == Attribution(Progress(r), 0, NoPrice, NoPrice, NoIncome, 0, 0, 0, FALSE)

\* "B. Parallel Shift Price" with the shift known: the bond at the horizon
\* on the T0 curve moved in parallel.
WithParallelPrice(horizonYears, t0Result, t1Result, income, rolldownResult, shift, parallelResult) ==
    IF parallelResult.thrown THEN Rethrown(parallelResult) ELSE
    Attribution(Progress(parallelResult), horizonYears, t0Result, t1Result, income,
                rolldownResult.result.dirtyPrice, parallelResult.result.dirtyPrice,
                shift, TRUE)

WithRates(bond, pointsT0, horizonYears, t0Result, t1Result, income, rolldownResult, rateT0, rateT1) ==
    IF rateT1.thrown THEN Rethrown(rateT1) ELSE
    WithParallelPrice(horizonYears, t0Result, t1Result, income, rolldownResult,
                      Sub(rateT1.value, rateT0.value),
                      calculateBondPrice(Progress(rateT1), bond,
                                         ParallelCurve(pointsT0,
                                                       Sub(rateT1.value, rateT0.value)),
                                         "parallel", horizonYears))

WithRateT0(bond, pointsT0, pointsT1, refT1, horizonYears, t0Result, t1Result, income, rolldownResult, rateT0) ==
    IF rateT0.thrown THEN Rethrown(rateT0) ELSE
    WithRates(bond, pointsT0, horizonYears, t0Result, t1Result, income, rolldownResult,
              rateT0,
              Interp(Progress(rateT0), pointsT1, refT1,
                     Sub(bond.maturityYears, horizonYears)))

\* WithRolldown with the parallel price starting as the start price, not as
\* the rolldown price.
WithRolldownFromStart(bond, pointsT0, refT0, pointsT1, refT1, horizonYears, t0Result, t1Result, income, rolldownResult) ==
    IF rolldownResult.thrown THEN Rethrown(rolldownResult)
    ELSE IF Gt(Sub(bond.maturityYears, horizonYears), 0)
    THEN WithRateT0(bond, pointsT0, pointsT1, refT1, horizonYears, t0Result, t1Result,
                    income, rolldownResult,
                    Interp(Progress(rolldownResult), pointsT0, refT0,
                           Sub(bond.maturityYears, horizonYears)))
    ELSE Attribution(Progress(rolldownResult), horizonYears, t0Result, t1Result, income,
                     rolldownResult.result.dirtyPrice, t0Result.result.dirtyPrice,
                     0, FALSE)

\* "B. Parallel Shift Price": if (remainingMaturity > 0) the shift at the
\* remaining maturity and the parallel price, else the parallel price is the
\* rolldown price.
WithRolldown(bond, pointsT0, refT0, pointsT1, refT1, horizonYears, t0Result, t1Result, income, rolldownResult) ==
    IF rolldownResult.thrown THEN Rethrown(rolldownResult)
    ELSE IF Gt(Sub(bond.maturityYears, horizonYears), 0)
    THEN WithRateT0(bond, pointsT0, pointsT1, refT1, horizonYears, t0Result, t1Result,
                    income, rolldownResult,
                    Interp(Progress(rolldownResult), pointsT0, refT0,
                           Sub(bond.maturityYears, horizonYears)))
    ELSE Attribution(Progress(rolldownResult), horizonYears, t0Result, t1Result, income,
                     rolldownResult.result.dirtyPrice, rolldownResult.result.dirtyPrice,
                     0, FALSE)

\* "A. Rolldown Price": the bond at the horizon on the unchanged T0 curve.
WithIncome(bond, pointsT0, refT0, pointsT1, refT1, horizonYears, t0Result, t1Result, income) ==
    IF income.thrown THEN Rethrown(income) ELSE
    WithRolldown(bond, pointsT0, refT0, pointsT1, refT1, horizonYears, t0Result, t1Result,
                 income,
                 calculateBondPrice(Progress(income), bond, pointsT0, refT0, horizonYears))

\* "Income Component": coupons and reinvestment over the bond's schedule
\* from issue.
WithEndPrice(bond, pointsT0, refT0, pointsT1, refT1, horizonYears, t0Result, t1Result) ==
    IF t1Result.thrown THEN Rethrown(t1Result) ELSE
    LET periodLength == Div(Num(1), bond.frequency)
        periodsTotal == Ceil(Mul(bond.maturityYears, bond.frequency))
        firstCouponTime == Sub(bond.maturityYears, Mul(Num(periodsTotal - 1), periodLength))
    IN  WithIncome(bond, pointsT0, refT0, pointsT1, refT1, horizonYears, t0Result,
                   t1Result,
                   IncomeLoop([cache |-> t1Result.cache, thrown |-> t1Result.thrown,
                               reads |-> t1Result.reads, totalCoupons |-> 0,
                               reinvestmentIncome |-> 0, counted |-> 0,
                               compounded |-> 0],
                              bond, pointsT1, refT1, horizonYears, firstCouponTime,
                              periodsTotal, 0))

\* "2. Final State (T1 - Actual Scenario)": the bond at the horizon on curveT1.
WithStartPrice(bond, pointsT0, refT0, pointsT1, refT1, horizonYears, t0Result) ==
    IF t0Result.thrown THEN Rethrown(t0Result) ELSE
    WithEndPrice(bond, pointsT0, refT0, pointsT1, refT1, horizonYears, t0Result,
                 calculateBondPrice(Progress(t0Result), bond, pointsT1, refT1, horizonYears))

\* calculateTotalReturn(bond, curveT0, curveT1, horizonYears), entered with
\* the cache `cache`: the cache and progress it leaves, the TotalReturnResult,
\* and the intermediate prices (for the claims).
calculateTotalReturn(cache, bond, pointsT0, refT0, pointsT1, refT1, horizonYears) ==
    WithStartPrice(bond, pointsT0, refT0, pointsT1, refT1, horizonYears,
                   calculateBondPrice(Enter0(cache), bond, pointsT0, refT0, 0))

----------------------------------------------------------------------------
(* Inputs *)

MaxTenor == 3     \* curve tenors are 1..MaxTenor years
MaxPoints == 3    \* a curve has at most MaxPoints points

Refs == {"A", "B"}

RateLevels == {Num(0), Num(1), Num(20)}
CurvePoints == {Point(Num(y), r) : y \in 1..MaxTenor, r \in RateLevels}

\* A Curve of the data model: strictly increasing tenors.
IsCurve(c) == \A i \in 1..(Len(c) - 1) : c[i].tenor < c[i + 1].tenor

Reverse(c) == [i \in 1..Len(c) |-> c[Len(c) + 1 - i]]

SortedCurves ==
    {c \in UNION {[1..k -> CurvePoints] : k \in 0..MaxPoints} : IsCurve(c)}

\* What a caller may pass: a Curve, or its points in descending order.
InputCurves == SortedCurves \cup {Reverse(c) : c \in SortedCurves}

\* The tenors a rate is asked for: every quarter from 0 to MaxTenor + 1 years.
QueryTenors == {q * Quarter : q \in 0..(4 * (MaxTenor + 1))}

WarmCurve == <<Point(Num(1), Num(1)), Point(Num(2), Num(20))>>

NoCall == [op |-> "none"]
NoRet == [thrown |-> FALSE, value |-> 0]
NoThreads == <<>>

----------------------------------------------------------------------------
(* SpecInterp: one interpolateRate call on a caller's array.  The cache is  *)
(* empty (module just loaded), or left by an earlier call on another array, *)
(* or left by an earlier call on this array.                                *)

CacheAfter(cache, points, ref) == interpolateRate(cache, points, ref, 0).cache

InitInterp ==
    /\ \E c \in InputCurves : heap = [r \in Refs |-> IF r = "A" THEN c ELSE WarmCurve]
    /\ cachedSpline \in {NoCache,
                          CacheAfter(NoCache, heap["B"], "B"),
                          CacheAfter(NoCache, heap["A"], "A")}
    /\ call = NoCall
    /\ ret = NoRet
    /\ thr = NoThreads

\* The caller invokes interpolateRate(heap[ref], t).
CallInterpolateRate(ref, t) ==
    LET r == interpolateRate(cachedSpline, heap[ref], ref, t)
    IN  /\ cachedSpline' = r.cache
        /\ call' = [op |-> "interpolateRate", curve |-> ref, t |-> t,
                    hit |-> ~CacheMiss(cachedSpline, ref)]
        /\ ret' = [thrown |-> r.thrown, value |-> r.value]
        /\ UNCHANGED <<heap, thr>>

NextInterp ==
    /\ call.op = "none"
    /\ \E t \in QueryTenors : CallInterpolateRate("A", t)

SpecInterp == InitInterp /\ [][NextInterp]_vars

Returned == call.op = "interpolateRate" /\ ~ret.thrown
Arg == heap[call.curve]

\* C2 (flat extrapolation): for a Curve with at least one point, the rate
\* returned for a tenor at or below the first node's tenor is the first
\* node's rate, and for a tenor at or above the last node's tenor it is the
\* last node's rate.
C2_FlatExtrapolation ==
    (Returned /\ IsCurve(Arg) /\ Len(Arg) >= 1) =>
        /\ call.t <= Arg[1].tenor => ret.value = Arg[1].rate
        /\ call.t >= Arg[Len(Arg)].tenor => ret.value = Arg[Len(Arg)].rate

C2_Witness ==
    /\ Returned /\ IsCurve(Arg) /\ Len(Arg) = 3
    /\ Arg[1].rate # Arg[2].rate /\ Arg[2].rate # Arg[3].rate
    /\ call.t > Arg[3].tenor
    /\ ret.value = Arg[3].rate

\* C3 (node exactness): for a Curve, the rate returned at the tenor of any
\* of its nodes is that node's rate, interior nodes included.
C3_NodeExactness ==
    (Returned /\ IsCurve(Arg)) =>
        \A i \in 1..Len(Arg) : call.t = Arg[i].tenor => ret.value = Arg[i].rate

C3_Witness ==
    /\ Returned /\ IsCurve(Arg) /\ Len(Arg) = 3
    /\ call.t = Arg[2].tenor
    /\ Arg[2].rate = Num(1) /\ Arg[1].rate = Num(20) /\ Arg[3].rate = Num(0)
    /\ ret.value = Num(1)

Min(a, b) == IF a <= b THEN a ELSE b
Max(a, b) == IF a >= b THEN a ELSE b

NonDecreasing(c) == \A i \in 1..(Len(c) - 1) : c[i].rate <= c[i + 1].rate

\* C4 (no overshoot): for a Curve whose rates are non-decreasing in tenor,
\* the rate returned for a tenor between two adjacent nodes lies between the
\* two nodes' rates.
C4_NoOvershoot ==
    (Returned /\ IsCurve(Arg) /\ NonDecreasing(Arg)) =>
        \A i \in 1..(Len(Arg) - 1) :
            (Arg[i].tenor <= call.t /\ call.t <= Arg[i + 1].tenor) =>
                /\ ret.value >= Min(Arg[i].rate, Arg[i + 1].rate)
                /\ ret.value <= Max(Arg[i].rate, Arg[i + 1].rate)

\* A steep curve, where the rescaling of the tangents acts, asked strictly
\* inside its first interval.
C4_Witness ==
    /\ Returned
    /\ Arg = <<Point(Num(1), Num(0)), Point(Num(2), Num(1)), Point(Num(3), Num(20))>>
    /\ call.t = Num(1) + 2 * Quarter
    /\ ret.value > Num(0) /\ ret.value < Num(1)

\* C10 (degenerate curve): interpolateRate on an array of fewer than 2
\* points raises an error and returns no rate.
C10_FewPointsIsError ==
    (call.op = "interpolateRate" /\ Len(Arg) < 2) => ret.thrown

----------------------------------------------------------------------------
(* SpecOrder: one interpolateRate call on an array whose points come in any *)
(* order and may repeat a tenor.                                            *)

OrderRates == {Num(1), Num(20)}
OrderPoints == {Point(Num(y), r) : y \in 1..MaxTenor, r \in OrderRates}

\* Every array of up to MaxPoints points.
AnyOrderCurves == UNION {[1..k -> OrderPoints] : k \in 0..MaxPoints}

InitOrder ==
    /\ \E c \in AnyOrderCurves : heap = [r \in Refs |-> IF r = "A" THEN c ELSE WarmCurve]
    /\ cachedSpline \in {NoCache, CacheAfter(NoCache, heap["B"], "B")}
    /\ call = NoCall
    /\ ret = NoRet
    /\ thr = NoThreads

SpecOrder == InitOrder /\ [][NextInterp]_vars

UniqueTenors(c) == \A i, j \in 1..Len(c) : c[i].tenor = c[j].tenor => i = j

StrictlyIncreasing(xs) == \A i \in 1..(Len(xs) - 1) : xs[i] < xs[i + 1]

\* C11 (duplicate tenors): an interpolateRate call either raises an error or
\* evaluates an interpolant whose tenors are strictly increasing, so that no
\* interval has zero width, also when the array passed repeats a tenor.
C11_NoZeroWidthInterval ==
    (call.op = "interpolateRate" /\ ~ret.thrown) =>
        StrictlyIncreasing(cachedSpline.spline.xs)

\* The points of c in ascending order of tenor, for unique tenors.
Ascending(c) ==
    CHOOSE s \in [1..Len(c) -> {c[i] : i \in 1..Len(c)}] :
        IsCurve(s) /\ {s[i] : i \in 1..Len(s)} = {c[i] : i \in 1..Len(c)}

\* C12 (caller order): for an array with unique tenors, in whatever order
\* its points come, the rate returned at every tenor is the rate returned
\* for the same points in ascending order of tenor.
C12_OrderIndependent ==
    (Returned /\ UniqueTenors(Arg)) =>
        ret.value = interpolateRate(NoCache, Ascending(Arg), "sorted", call.t).value

\* Three points passed neither ascending nor descending, asked inside an
\* interval, where the spline of the unsorted points gives another rate.
C12_Witness ==
    /\ Returned /\ UniqueTenors(Arg) /\ Len(Arg) = 3
    /\ Arg[1].tenor = Num(2) /\ Arg[2].tenor = Num(3) /\ Arg[3].tenor = Num(1)
    /\ Arg[1].rate # Arg[3].rate
    /\ call.t = Num(1) + 2 * Quarter
    /\ ret.value # at(BuildSplineUnsorted(Arg), call.t)
    /\ ret.value = at(BuildSplineUnsorted(Ascending(Arg)), call.t)

----------------------------------------------------------------------------
(* Spec: sequences of interpolateRate calls on two arrays the caller holds. *)
(* The caller never writes into an array it has passed: to change a curve   *)
(* it builds a new array (curve.map(...)), as every handler of App.tsx      *)
(* does.                                                                    *)

\* The curves of the call sequences: two nodes, at 1 and 2 years.
SeqCurves == {c \in SortedCurves : Len(c) = 2 /\ c[2].tenor <= Num(2)}
SeqTenors == {3 * Quarter, Num(1), 6 * Quarter, Num(2), 9 * Quarter}

DefaultCurve == <<Point(Num(1), Num(0)), Point(Num(2), Num(1))>>

Init ==
    /\ heap = [r \in Refs |-> DefaultCurve]
    /\ cachedSpline = NoCache
    /\ call = NoCall
    /\ ret = NoRet
    /\ thr = NoThreads

\* The caller writes the points c into the array ref itself: the array keeps
\* its identity, and the cache is not told.
MutateInPlace(ref, c) ==
    /\ heap' = [heap EXCEPT ![ref] = c]
    /\ call' = [op |-> "write", curve |-> ref]
    /\ ret' = NoRet
    /\ UNCHANGED <<cachedSpline, thr>>

ReplaceCurveSameArray(ref, c) == MutateInPlace(ref, c)

\* The caller replaces the array it holds in ref by a new array with the
\* points c.  The old array, if the cache holds it, stays alive there but is
\* no array any later call can pass.
ReplaceCurve(ref, c) ==
    /\ heap' = [heap EXCEPT ![ref] = c]
    /\ cachedSpline' = IF cachedSpline.curve = ref
                       THEN [cachedSpline EXCEPT !.curve = "dropped"]
                       ELSE cachedSpline
    /\ call' = [op |-> "replace", curve |-> ref]
    /\ ret' = NoRet
    /\ UNCHANGED thr

Next ==
    \/ \E ref \in Refs, c \in SeqCurves : ReplaceCurve(ref, c)
    \/ \E ref \in Refs, t \in SeqTenors : CallInterpolateRate(ref, t)

Spec == Init /\ [][Next]_vars

\* SpecInPlace: the same, with callers that also write into their arrays.
NextInPlace ==
    \/ \E ref \in Refs, c \in SeqCurves : ReplaceCurve(ref, c)
    \/ \E ref \in Refs, c \in SeqCurves : MutateInPlace(ref, c)
    \/ \E ref \in Refs, t \in SeqTenors : CallInterpolateRate(ref, t)

SpecInPlace == Init /\ [][NextInPlace]_vars

\* The rate of the points as they are now.
FreshRate(points, t) == at(BuildSpline(points), t)

\* C7 (purity across calls): the value an interpolateRate call returns is the
\* rate of the current contents of the array passed, at t, whatever was
\* called before, also after the array's points were changed in place.
C7_DependsOnContentsOnly ==
    Returned => ret.value = FreshRate(Arg, call.t)

\* C8 (equal contents, distinct arrays): when the two arrays hold the same
\* points, interpolateRate returns the same rate for both at every tenor,
\* in either order of the two calls, from whatever the cache holds.
C8_EqualContentsSameRate ==
    heap["A"] = heap["B"] =>
        \A t \in SeqTenors :
            LET a1 == interpolateRate(cachedSpline, heap["A"], "A", t)
                b1 == interpolateRate(a1.cache, heap["B"], "B", t)
                b2 == interpolateRate(cachedSpline, heap["B"], "B", t)
                a2 == interpolateRate(b2.cache, heap["A"], "A", t)
            IN  /\ a1.value = b1.value
                /\ b2.value = a2.value
                /\ a1.value = b2.value

\* The cache holds the array A, built before B was replaced by an array
\* with A's points, and B has just been interpolated.
C8_Witness ==
    /\ heap["A"] = heap["B"]
    /\ heap["A"] # DefaultCurve
    /\ heap["A"][1].rate # heap["A"][2].rate
    /\ Returned /\ call.curve = "B" /\ ~call.hit
    /\ call.t = 6 * Quarter
    /\ ret.value = FreshRate(heap["A"], call.t)

----------------------------------------------------------------------------
(* SpecConc: two callers inside interpolateRate at the same time, each with *)
(* its own array, their steps interleaved.  A step is one read or write of  *)
(* the shared cachedSpline, or the local construction of a spline.          *)

Callers == {"c1", "c2"}
Own(c) == IF c = "c1" THEN "A" ELSE "B"

Idle == [pc |-> "idle", t |-> 0, spline |-> NoSpline, value |-> 0, thrown |-> FALSE]

InitConc ==
    /\ \E a \in SeqCurves : heap = [r \in Refs |-> IF r = "A" THEN a ELSE WarmCurve]
    /\ cachedSpline = NoCache
    /\ call = NoCall
    /\ ret = NoRet
    /\ thr = [c \in Callers |-> Idle]

\* The caller enters interpolateRate(own array, t).
Enter(c, t) ==
    /\ thr[c].pc = "idle"
    /\ thr' = [thr EXCEPT ![c] = [Idle EXCEPT !.pc = "check", !.t = t]]
    /\ UNCHANGED <<heap, cachedSpline, call, ret>>

\* if (!cachedSpline || cachedSpline.curve !== curve)
CheckCache(c) ==
    /\ thr[c].pc = "check"
    /\ thr' = [thr EXCEPT ![c].pc =
                   IF CacheMiss(cachedSpline, Own(c)) THEN "build" ELSE "read"]
    /\ UNCHANGED <<heap, cachedSpline, call, ret>>

\* sorted = [...curve].sort(...); new MonotoneCubicSpline(...)
Build(c) ==
    /\ thr[c].pc = "build"
    /\ thr' = IF ConstructorThrows(heap[Own(c)])
              THEN [thr EXCEPT ![c].pc = "done", ![c].thrown = TRUE]
              ELSE [thr EXCEPT ![c].pc = "write",
                               ![c].spline = BuildSpline(heap[Own(c)])]
    /\ UNCHANGED <<heap, cachedSpline, call, ret>>

\* cachedSpline = { curve, spline }
WriteCache(c) ==
    /\ thr[c].pc = "write"
    /\ cachedSpline' = [curve |-> Own(c), spline |-> thr[c].spline]
    /\ thr' = [thr EXCEPT ![c].pc = "read"]
    /\ UNCHANGED <<heap, call, ret>>

\* return cachedSpline.spline.at(t)
ReadCache(c) ==
    /\ thr[c].pc = "read"
    /\ thr' = [thr EXCEPT ![c].pc = "done", ![c].value = at(cachedSpline.spline, thr[c].t)]
    /\ UNCHANGED <<heap, cachedSpline, call, ret>>

\* The caller takes the result and is ready for its next call.
Leave(c) ==
    /\ thr[c].pc = "done"
    /\ thr' = [thr EXCEPT ![c] = Idle]
    /\ UNCHANGED <<heap, cachedSpline, call, ret>>

NextConc ==
    \E c \in Callers :
        \/ \E t \in SeqTenors : Enter(c, t)
        \/ CheckCache(c)
        \/ Build(c)
        \/ WriteCache(c)
        \/ ReadCache(c)
        \/ Leave(c)

SpecConc == InitConc /\ [][NextConc]_vars

----------------------------------------------------------------------------
(* SpecKernel: one call of calculateBondPrice or calculateTotalReturn on    *)
(* the two curves the caller holds, A as curveT0 and B as curveT1.          *)

MaxMaturityQ == 5     \* maturities run from one quarter to MaxMaturityQ quarters

\* A curve at one rate everywhere, with nodes at 0 and 30 years.
Flat(r) == <<Point(0, r), Point(Num(30), r)>>

Rising == <<Point(0, Num(2)), Point(Num(1), Num(5)), Point(Num(3), Num(10))>>
Falling == <<Point(0, Num(10)), Point(Num(1), Num(5)), Point(Num(3), Num(2))>>
Empty == <<>>

\* The pairs (curveT0, curveT1) of the calls.
CurvePairs ==
    {<<Flat(Num(2)), Flat(Num(10))>>, <<Flat(Num(0)), Flat(Num(20))>>,
     <<Rising, Falling>>, <<Rising, Flat(Num(2))>>,
     <<Empty, Rising>>, <<Rising, Empty>>}

Frequencies == {1, 2, 4}

Bonds ==
    {[couponRate |-> Num(5), maturityYears |-> q * Quarter,
      frequency |-> Num(f), faceValue |-> Num(100)] :
        q \in 1..MaxMaturityQ, f \in Frequencies}

\* Elapsed years and horizons: every quarter, to one past the longest maturity.
Horizons == {q * Quarter : q \in 0..(MaxMaturityQ + 1)}

InitKernel ==
    /\ \E p \in CurvePairs : heap = [r \in Refs |-> IF r = "A" THEN p[1] ELSE p[2]]
    /\ cachedSpline = NoCache
    /\ call = NoCall
    /\ ret = NoRet
    /\ thr = NoThreads

\* The caller takes the result r of its call.
Return(r) ==
    /\ cachedSpline' = r.cache
    /\ ret' = r
    /\ UNCHANGED <<heap, thr>>

\* The caller invokes calculateBondPrice(bond, heap[ref], settlementShift).
CallCalculateBondPrice(bond, ref, settlementShift) ==
    /\ call' = [op |-> "calculateBondPrice", bond |-> bond, curve |-> ref,
                settlementShift |-> settlementShift]
    /\ Return(calculateBondPrice(Enter0(cachedSpline), bond, heap[ref], ref,
                                 settlementShift))

\* The caller invokes calculateTotalReturn(bond, heap.A, heap.B, horizonYears).
CallCalculateTotalReturn(bond, horizonYears) ==
    /\ call' = [op |-> "calculateTotalReturn", bond |-> bond,
                horizonYears |-> horizonYears]
    /\ Return(calculateTotalReturn(cachedSpline, bond, heap["A"], "A", heap["B"], "B",
                                   horizonYears))

NextKernel ==
    /\ call.op = "none"
    /\ \/ \E bond \in Bonds, ref \in Refs, s \in Horizons :
              CallCalculateBondPrice(bond, ref, s)
       \/ \E bond \in Bonds, h \in Horizons : CallCalculateTotalReturn(bond, h)

SpecKernel == InitKernel /\ [][NextKernel]_vars

PriceCalled == call.op = "calculateBondPrice"
TotalReturned == call.op = "calculateTotalReturn" /\ ~ret.thrown

FinitePrices ==
    /\ Finite(ret.result.startPriceDirty) /\ Finite(ret.result.endPriceDirty)
    /\ Finite(ret.priceRolldownDirty) /\ Finite(ret.priceParallelDirty)

\* Four roundings of half a grid step, each scaled to percent.
ComponentTol == 4 * (Num(100) \div (2 * SCALE))

\* C1 (telescoping): whenever calculateTotalReturn produces finite prices,
\* the three price differences add up to endPrice - startPrice exactly, and
\* rolldownReturnComponent + durationReturnComponent +
\* convexityShapeReturnComponent equals priceReturnComponent up to the
\* rounding of the four divisions, with the bond alive or matured at the
\* horizon.
C1_Telescoping ==
    (TotalReturned /\ FinitePrices) =>
        /\ ret.rolldownDiff + ret.durationDiff + ret.shapeDiff
               = ret.result.endPriceDirty - ret.result.startPriceDirty
        /\ Abs(ret.result.rolldownReturnComponent + ret.result.durationReturnComponent
                   + ret.result.convexityShapeReturnComponent
                   - ret.result.priceReturnComponent) <= ComponentTol

\* A bond alive at the horizon between two curves of different shape: all
\* three differences are non-zero.
C1_Witness ==
    /\ TotalReturned /\ FinitePrices /\ ret.shifted
    /\ heap["A"] = Rising /\ heap["B"] = Falling
    /\ ret.rolldownDiff # 0 /\ ret.durationDiff # 0 /\ ret.shapeDiff # 0
    /\ Abs(ret.result.priceReturnComponent) > ComponentTol

\* C5 (matured bond): calculateBondPrice with elapsed years at or past
\* maturityYears returns exactly {cleanPrice: faceValue, dirtyPrice:
\* faceValue, accruedInterest: 0, yieldToMaturity: 0, duration: 0,
\* convexity: 0}, makes no interpolateRate call, leaves the cache as it was
\* and raises no error.
C5_MaturedBond ==
    (PriceCalled /\ call.settlementShift >= call.bond.maturityYears) =>
        /\ ~ret.thrown
        /\ ret.result = MaturedResult(call.bond.faceValue)
        /\ ret.reads = 0
        /\ cachedSpline = NoCache

\* Elapsed years exactly at maturity, on an array no rate can be read from.
C5_Witness ==
    /\ PriceCalled /\ Arg = Empty
    /\ call.settlementShift = call.bond.maturityYears
    /\ ~ret.thrown /\ ret.matured
    /\ ret.result.cleanPrice = Num(100)

IsFlat(c) == Len(c) >= 2 /\ \A i \in 1..Len(c) : c[i].rate = c[1].rate

PricedOnFlat == PriceCalled /\ ~ret.thrown /\ ~ret.matured /\ IsFlat(Arg)

\* The solver resolves y to one grid step of y / frequency, at most four
\* steps of y; the tolerance is five steps of y, in percent.
YieldTol == 5 * MulFx(1, Num(100))

RoundTrips == Abs(ret.result.yieldToMaturity - Arg[1].rate) <= YieldTol

PriceReturned == PriceCalled /\ ~ret.thrown

\* amount * (1 + r(t))^(-t), r(t) the rate of the curve's points at t, in
\* percent.
AnnualPV(points, cf) ==
    Mul(cf.amount, Pow(Add(Num(1), Div(FreshRate(points, cf.t), Num(100))), Neg(cf.t)))

\* The sum of AnnualPV over the first k flows, added in schedule order.
RECURSIVE CurveValue(_, _, _)
CurveValue(points, flows, k) ==
    IF k = 0 THEN 0
    ELSE Add(CurveValue(points, flows, k - 1), AnnualPV(points, flows[k]))

\* C13 (price identities): in every BondResult of calculateBondPrice, of a
\* live or a matured bond, cleanPrice = dirtyPrice - accruedInterest; for a
\* live bond dirtyPrice is the sum over its cash flows of
\* amount * (1 + r(t))^(-t), r read from the curve at the flow's time, the
\* bond's frequency playing no part in the discounting.
C13_PriceIdentities ==
    PriceReturned =>
        /\ ret.result.cleanPrice = Sub(ret.result.dirtyPrice, ret.result.accruedInterest)
        /\ ~ret.matured =>
               ret.result.dirtyPrice = CurveValue(Arg, ret.cashFlows, Len(ret.cashFlows))

\* A semi-annual bond between coupon dates with three flows left, on a curve
\* whose rate differs from flow to flow.
C13_Witness ==
    /\ PriceReturned /\ ~ret.matured
    /\ Arg = Rising /\ call.bond.frequency = Num(2)
    /\ Len(ret.cashFlows) = 3
    /\ ret.result.accruedInterest > 0
    /\ Finite(ret.result.dirtyPrice) /\ ret.result.dirtyPrice > Num(90)
    /\ ret.result.cleanPrice < ret.result.dirtyPrice

\* C14 (annualization asymmetry): totalReturnAnnualized equals totalReturnAbs
\* for every horizon of at most one year, one year included, and equals
\* ((1 + totalReturn)^(1 / horizonYears) - 1) in percent for every longer
\* horizon, totalReturn being the absolute return as a fraction.
C14_Annualization ==
    TotalReturned =>
        /\ call.horizonYears <= Num(1) =>
               ret.result.totalReturnAnnualized = ret.result.totalReturnAbs
        /\ call.horizonYears > Num(1) =>
               ret.result.totalReturnAnnualized =
                   Mul(Sub(Pow(Add(Num(1), ret.totalReturn),
                               Div(Num(1), call.horizonYears)),
                           Num(1)),
                       Num(100))

\* A horizon of a year and a quarter with a gain: the annualized return is
\* positive and below the absolute return.
C14_Witness ==
    /\ TotalReturned /\ call.horizonYears = 5 * Quarter
    /\ Finite(ret.result.totalReturnAbs) /\ ret.result.totalReturnAbs > Num(1)
    /\ ret.result.totalReturnAnnualized > 0
    /\ ret.result.totalReturnAnnualized < ret.result.totalReturnAbs

\* The payment dates of the bond's schedule from issue: maturity, and every
\* whole period before it, as long as the date is after issue.
PeriodOf(bond) == SCALE \div (bond.frequency \div SCALE)
ScheduleDates(bond) ==
    {d \in {bond.maturityYears - k * PeriodOf(bond) :
                k \in 0..(bond.maturityYears \div PeriodOf(bond))} : d > 0}

DatesUpTo(bond, horizonYears) == {d \in ScheduleDates(bond) : d <= horizonYears}
DatesBefore(bond, horizonYears) == {d \in ScheduleDates(bond) : d < horizonYears}

----------------------------------------------------------------------------
(* SpecExtreme: one kernel call on curves at the edge of the number range:  *)
(* a rate of -100%, where the discount factor is a division by zero, and a  *)
(* rate so high that discount factors round to zero.                        *)

MaxExtremeHalves == 2    \* maturities of 1..MaxExtremeHalves half years

\* 5% at tenor 0 and a rate of Infinity from a quarter year on: every
\* discount factor is (1 + Infinity)^(-t) = 0.
Cliff == <<Point(0, Num(5)), Point(Quarter, PosInf)>>

ExtremeCurves == {Flat(Num(5)), Flat(Num(-100)), Cliff}

ExtremeBonds ==
    {[couponRate |-> Num(c), maturityYears |-> m * 2 * Quarter,
      frequency |-> Num(f), faceValue |-> Num(100)] :
        c \in {0, 5}, m \in 1..MaxExtremeHalves, f \in Frequencies}

ExtremeHorizons == {0, 2 * Quarter, Num(1)}

InitExtreme ==
    /\ \E a \in ExtremeCurves, b \in ExtremeCurves :
           heap = [r \in Refs |-> IF r = "A" THEN a ELSE b]
    /\ cachedSpline = NoCache
    /\ call = NoCall
    /\ ret = NoRet
    /\ thr = NoThreads

NextExtreme ==
    /\ call.op = "none"
    /\ \/ \E bond \in ExtremeBonds, s \in ExtremeHorizons :
              CallCalculateBondPrice(bond, "A", s)
       \/ \E bond \in ExtremeBonds, h \in ExtremeHorizons :
              CallCalculateTotalReturn(bond, h)

SpecExtreme == InitExtreme /\ [][NextExtreme]_vars

KernelCalled == call.op \in {"calculateBondPrice", "calculateTotalReturn"}
TotalCalled == call.op = "calculateTotalReturn"
LivePriced == PriceCalled /\ ~ret.thrown /\ ~ret.matured

NotConverged == ret.exit \in {"maxIter", "zeroDerivative"}

\* The fields of a TotalReturnResult that are divided by the start price.
ReturnFields ==
    {"totalReturnAbs", "priceReturnComponent", "couponReturnComponent",
     "reinvestmentReturnComponent", "rolldownReturnComponent",
     "durationReturnComponent", "convexityShapeReturnComponent"}

ZeroPriceFields ==
    /\ (LivePriced /\ ret.result.dirtyPrice = 0) =>
           ~Finite(ret.result.duration) /\ ~Finite(ret.result.convexity)
    /\ (TotalCalled /\ ~ret.thrown /\ ret.result.startPriceDirty = 0) =>
           \A f \in ReturnFields : ~Finite(ret.result[f])

\* C16 as stated (failure shows as NaN or Infinity): a kernel call raises no
\* error; with a zero dirty price the fields divided by it are NaN or
\* Infinity, and when the solver has not converged yieldToMaturity is NaN or
\* Infinity.
C16_FailureShowsInFields ==
    KernelCalled =>
        /\ ~ret.thrown
        /\ ZeroPriceFields
        /\ (LivePriced /\ NotConverged) => ~Finite(ret.result.yieldToMaturity)

\* C16 as amended (failure is not signalled): a kernel call on curves of at
\* least one point raises no error, whatever the prices and whether or not
\* the solver converged; with a zero dirty price duration and convexity, and
\* with a zero start price every return field, are NaN or Infinity; when the
\* solver has not converged yieldToMaturity is 100 times its last estimate,
\* finite or not.
C16_FailureNotSignalled ==
    (KernelCalled /\ Len(heap["A"]) >= 1 /\ Len(heap["B"]) >= 1) =>
        /\ ~ret.thrown
        /\ ZeroPriceFields
        /\ (LivePriced /\ NotConverged) =>
               ret.result.yieldToMaturity = Mul(ret.y, Num(100))

\* A bond priced at exactly zero: duration and convexity are NaN, the solver
\* has stopped without converging, and the yield returned is a finite number.
C16_Witness ==
    /\ LivePriced /\ Arg = Cliff
    /\ ret.result.dirtyPrice = 0
    /\ ret.result.duration = NaN /\ ret.result.convexity = NaN
    /\ NotConverged
    /\ Finite(ret.result.yieldToMaturity) /\ ret.result.yieldToMaturity > Num(100)

\* C17 (schedule shape): for a bond with remaining = maturityYears - elapsed
\* > 0 there is at least one flow, the first flow lies in (0, periodLength],
\* consecutive flows are exactly periodLength apart, the last flow is at
\* remaining, and every flow pays couponAmount, the last one faceValue on
\* top and no other.
C17_ScheduleShape ==
    LivePriced =>
        LET flows == ret.cashFlows
            n == Len(flows)
            remaining == call.bond.maturityYears - call.settlementShift
        IN  /\ n >= 1
            /\ flows[1].t > 0 /\ flows[1].t <= PeriodOf(call.bond)
            /\ \A i \in 1..(n - 1) : flows[i + 1].t - flows[i].t = PeriodOf(call.bond)
            /\ flows[n].t = remaining
            /\ \A i \in 1..n :
                   flows[i].amount = couponAmountOf(call.bond)
                                         + (IF i = n THEN call.bond.faceValue ELSE 0)

\* A semi-annual bond a year and a quarter from maturity, a quarter of a year
\* into its period: three flows, the first after a quarter of a year.
C17_Witness ==
    /\ LivePriced /\ call.bond.frequency = Num(2)
    /\ call.bond.maturityYears - call.settlementShift = 5 * Quarter
    /\ Len(ret.cashFlows) = 3
    /\ ret.cashFlows[1].t = Quarter
    /\ ret.cashFlows[2].amount = couponAmountOf(call.bond)
    /\ ret.cashFlows[3].t = 5 * Quarter
    /\ ret.cashFlows[3].amount = Num(100) + couponAmountOf(call.bond)

\* The solver's f, f - targetPrice, f' and its tolerance test at an estimate
\* y, recomputed for the call made last from the flows it pushed and its
\* dirty price.
BaseAt(y) == Add(Num(1), Div(y, call.bond.frequency))
FAt(y) == SumF(ret.cashFlows, call.bond.frequency, BaseAt(y), 1, 0)
DiffAt(y) == Sub(FAt(y), ret.result.dirtyPrice)
SlopeAt(y) == SumDF(ret.cashFlows, call.bond.frequency, BaseAt(y), 1, 0)
ToleranceMet(y) == Lt(AbsN(DiffAt(y)), tol)
UpdateOf(y) == Sub(y, Div(DiffAt(y), SlopeAt(y)))

\* C18 (the solver terminates): solveForYTM starts from y = 0.05 and
\* evaluates f at most 20 times, each estimate after the first being the
\* Newton update of the one before; it returns the estimate at hand, not
\* updated, at the first estimate with |f(y) - targetPrice| below the
\* tolerance, and otherwise the y left by the last update; it raises no error.
C18_SolverTerminates ==
    LivePriced =>
        /\ ret.exit \in {"converged", "zeroDerivative", "maxIter"}
        /\ ret.evals = Len(ret.trace) /\ ret.evals >= 1 /\ ret.evals <= 20
        /\ ret.trace[1] = (5 * SCALE) \div 100
        /\ \A i \in 1..(ret.evals - 1) :
               ~ToleranceMet(ret.trace[i]) /\ ret.trace[i + 1] = UpdateOf(ret.trace[i])
        /\ ToleranceMet(ret.trace[ret.evals]) <=> ret.exit = "converged"
        /\ ret.exit \in {"converged", "zeroDerivative"} => ret.y = ret.trace[ret.evals]
        /\ ret.exit = "maxIter" =>
               ret.evals = 20 /\ ret.y = UpdateOf(ret.trace[20])

\* A pricing whose solver used up its twenty iterations and returned the
\* finite estimate left by the twentieth update.
C18_Witness ==
    /\ LivePriced /\ ret.exit = "maxIter" /\ ret.evals = 20
    /\ Finite(ret.y) /\ ret.y # ret.trace[20]
    /\ ret.result.yieldToMaturity = Mul(ret.y, Num(100))

\* C19 (zero derivative): if at an estimate the solver visits f' is exactly
\* zero and the tolerance is not met, that estimate is the last one visited
\* and is the yield returned, with no update and no error; and the solver
\* leaves through this exit in no other case.
C19_ZeroDerivativeStops ==
    LivePriced =>
        /\ \A i \in 1..Len(ret.trace) :
               (SlopeAt(ret.trace[i]) = 0 /\ ~ToleranceMet(ret.trace[i])) =>
                   /\ i = Len(ret.trace)
                   /\ ret.exit = "zeroDerivative"
                   /\ ret.y = ret.trace[i]
                   /\ ret.result.yieldToMaturity = Mul(ret.trace[i], Num(100))
        /\ ret.exit = "zeroDerivative" =>
               SlopeAt(ret.y) = 0 /\ ~ToleranceMet(ret.y)

\* A bond on a flat curve of -100%: every discount factor is infinite, so is
\* the target price, the first update sends the estimate to -Infinity, where
\* f and f' are both zero; the solver stops there and returns -Infinity.
C19_Witness ==
    /\ LivePriced /\ Arg = Flat(Num(-100))
    /\ ret.exit = "zeroDerivative" /\ ret.evals = 2
    /\ ret.trace = <<InitialGuess, NegInf>>
    /\ SlopeAt(NegInf) = 0 /\ ~ToleranceMet(NegInf)
    /\ ret.y = NegInf /\ ret.result.yieldToMaturity = NegInf

\* The interpolant the constructor built last, and its secants.
Built == cachedSpline.spline
BuiltSecants == Secants(Built.xs, Built.ys)

\* alpha and beta of interval i (0-based) as the monotonicity loop computes
\* them on reaching it.
AlphaAt(i) == Div(Idx(TangentsAt(BuiltSecants, Len(Built.xs), i), i), Idx(BuiltSecants, i))
BetaAt(i) == Div(Idx(TangentsAt(BuiltSecants, Len(Built.xs), i), i + 1), Idx(BuiltSecants, i))

\* C20 (tangent sign clamp): for every interval with a non-zero secant, if
\* alpha is negative the tangent k_i is zero once the interval has been
\* processed (and so in the interpolant built, no later interval touching
\* it), and if beta is negative so is k_{i+1}, whatever hypot(alpha, beta).
C20_TangentSignClamp ==
    (call.op = "interpolateRate" /\ ~ret.thrown) =>
        \A i \in 0..(Len(Built.xs) - 2) :
            Idx(BuiltSecants, i) # 0 =>
                /\ Lt(AlphaAt(i), 0) =>
                       /\ Idx(TangentsAt(BuiltSecants, Len(Built.xs), i + 1), i) = 0
                       /\ Idx(Built.ks, i) = 0
                /\ Lt(BetaAt(i), 0) =>
                       Idx(TangentsAt(BuiltSecants, Len(Built.xs), i + 1), i + 1) = 0

\* (k_i / m_i)^2 + (k_{i+1} / m_i)^2 for interval i (0-based) of the
\* interpolant built, from its final tangents.
RegionOf(i) ==
    Add(Mul(Div(Idx(Built.ks, i), Idx(BuiltSecants, i)),
            Div(Idx(Built.ks, i), Idx(BuiltSecants, i))),
        Mul(Div(Idx(Built.ks, i + 1), Idx(BuiltSecants, i)),
            Div(Idx(Built.ks, i + 1), Idx(BuiltSecants, i))))

\* The grid's roundings of 3 / h, of its products and of the quotients by
\* the secant: a hundredth.
RegionTol == Num(1) \div 100

\* C21 (monotonicity region): in the interpolant built for a Curve, every
\* interval with a non-zero secant has (k_i/m_i)^2 + (k_{i+1}/m_i)^2 <= 9
\* for its final tangents, up to the rounding of the arithmetic.
C21_MonotonicityRegion ==
    (call.op = "interpolateRate" /\ ~ret.thrown) =>
        \A i \in 0..(Len(Built.xs) - 2) :
            Idx(BuiltSecants, i) # 0 => Leq(RegionOf(i), Num(9) + RegionTol)

\* A curve falling from 20 to 0 and rising to 1: the tangent at the middle
\* node is rewritten while the second interval is processed, which ends on
\* the circle of radius 3, and the first interval stays inside it.
C21_Witness ==
    /\ Returned
    /\ Arg = <<Point(Num(1), Num(20)), Point(Num(2), Num(0)), Point(Num(3), Num(1))>>
    /\ Built.xs = Tenors(Arg)
    /\ Idx(Built.ks, 1) # Idx(TangentsAt(BuiltSecants, 3, 1), 1)
    /\ RegionOf(1) > Num(8) /\ RegionOf(1) <= Num(9) + RegionTol
    /\ RegionOf(0) < Num(2)

\* C22 (flat segments stay flat): in the interpolant built, both endpoint
\* tangents of every interval whose two node rates are equal are zero after
\* the whole pass, and for a Curve the rate returned at a tenor inside such
\* an interval is that node rate.
C22_FlatSegments ==
    /\ (call.op = "interpolateRate" /\ ~ret.thrown) =>
           \A i \in 0..(Len(Built.xs) - 2) :
               Idx(Built.ys, i) = Idx(Built.ys, i + 1) =>
                   Idx(Built.ks, i) = 0 /\ Idx(Built.ks, i + 1) = 0
    /\ (Returned /\ IsCurve(Arg)) =>
           \A i \in 1..(Len(Arg) - 1) :
               (Arg[i].rate = Arg[i + 1].rate
                    /\ Arg[i].tenor <= call.t /\ call.t <= Arg[i + 1].tenor) =>
                   ret.value = Arg[i].rate

\* A flat interval followed by a steep one: the tangent at the shared node
\* starts as 9.5, is set to zero with the flat interval and is still zero
\* after the steep interval has been processed; half way through the flat
\* interval the rate is the node rate.
C22_Witness ==
    /\ Returned
    /\ Arg = <<Point(Num(1), Num(1)), Point(Num(2), Num(1)), Point(Num(3), Num(20))>>
    /\ Built.ys = Rates(Arg)
    /\ Idx(RawTangents(BuiltSecants, 3), 1) = Num(19) \div 2
    /\ Idx(Built.ks, 0) = 0 /\ Idx(Built.ks, 1) = 0 /\ Idx(Built.ks, 2) = Num(19)
    /\ call.t = Num(1) + 2 * Quarter
    /\ ret.value = Num(1)

\* The start price is a number other than zero, so that a division by it is
\* a number.
StartPriceDivides ==
    Finite(ret.result.startPriceDirty) /\ ret.result.startPriceDirty # 0

\* C23 (horizon at or past maturity): a calculateTotalReturn call with
\* horizonYears >= maturityYears that returns a result takes no shift and has
\* the parallel price equal to the rolldown price and both equal to the end
\* price, which is faceValue, so the duration and shape differences are zero,
\* on every pair of curves; divided by a start price that is a non-zero
\* number, durationReturnComponent and convexityShapeReturnComponent are zero
\* and priceReturnComponent equals rolldownReturnComponent.
C23_MaturedAtHorizon ==
    (TotalReturned /\ call.horizonYears >= call.bond.maturityYears) =>
        /\ ~ret.shifted
        /\ ret.priceParallelDirty = ret.priceRolldownDirty
        /\ ret.priceRolldownDirty = ret.result.endPriceDirty
        /\ ret.result.endPriceDirty = call.bond.faceValue
        /\ ret.durationDiff = 0 /\ ret.shapeDiff = 0
        /\ ret.rolldownDiff = Sub(ret.result.endPriceDirty, ret.result.startPriceDirty)
        /\ StartPriceDivides =>
               /\ ret.result.durationReturnComponent = 0
               /\ ret.result.convexityShapeReturnComponent = 0
               /\ ret.result.priceReturnComponent = ret.result.rolldownReturnComponent

\* A bond held past its maturity between two curves of different shape, with
\* a price return that is not zero.
C23_Witness ==
    /\ TotalReturned /\ call.horizonYears > call.bond.maturityYears
    /\ heap["A"] = Rising /\ heap["B"] = Falling
    /\ StartPriceDivides
    /\ ret.result.startPriceDirty # call.bond.faceValue
    /\ ret.result.priceReturnComponent # 0
    /\ ret.result.priceReturnComponent = ret.result.rolldownReturnComponent
    /\ ret.result.durationReturnComponent = 0

\* Three divisions by the start price and the one of the total, each rounded
\* by half a grid step and scaled to percent.
SumTol == 4 * (Num(100) \div (2 * SCALE))

\* C25 (return components add up): in every result of calculateTotalReturn
\* with prices and income that are numbers and a start price other than
\* zero, totalReturnAbs equals priceReturnComponent + couponReturnComponent
\* + reinvestmentReturnComponent up to the rounding of the four divisions.
C25_ComponentsAddUp ==
    (TotalReturned /\ FinitePrices /\ StartPriceDivides
         /\ Finite(ret.result.reinvestmentIncome)) =>
        Abs(ret.result.priceReturnComponent + ret.result.couponReturnComponent
                + ret.result.reinvestmentReturnComponent
                - ret.result.totalReturnAbs) <= SumTol

\* A bond with coupons received and reinvested before the horizon and a price
\* that moved: the three components are all non-zero and larger than the
\* rounding.
C25_Witness ==
    /\ TotalReturned /\ FinitePrices /\ StartPriceDivides
    /\ heap["A"] = Rising /\ heap["B"] = Falling
    /\ Abs(ret.result.priceReturnComponent) > SumTol
    /\ ret.result.couponReturnComponent > SumTol
    /\ ret.result.reinvestmentReturnComponent > SumTol
    /\ ret.result.totalReturnAbs > ret.result.couponReturnComponent

----------------------------------------------------------------------------
(* SpecMarket: the caller prepares the two arrays it holds, interpolating   *)
(* on them, replacing them and writing into them, and then calls            *)
(* calculateTotalReturn once, with A as curveT0 and either array as         *)
(* curveT1. The curves are one curve and the same curve moved in parallel.  *)

MaxMarketQ == 4    \* maturities of MaxMarketQ quarters

\* The move of the market: down by 1.2345 percent.
MarketShifts == {-(Num(1) + 2345)}

\* The curve with c added to the rate of every node.
MovedBy(points, c) ==
    [i \in 1..Len(points) |-> Point(points[i].tenor, points[i].rate + c)]

MarketCurves == {Rising} \cup {MovedBy(Rising, c) : c \in MarketShifts}

MarketBonds ==
    {[couponRate |-> Num(5), maturityYears |-> q * Quarter,
      frequency |-> Num(f), faceValue |-> Num(100)] :
        q \in {MaxMarketQ}, f \in {1, 2}}

MarketHorizons == {2 * Quarter, Num(1)}

InitMarket ==
    /\ \E a \in MarketCurves, b \in MarketCurves :
           heap = [r \in Refs |-> IF r = "A" THEN a ELSE b]
    /\ cachedSpline = NoCache
    /\ call = NoCall
    /\ ret = NoRet
    /\ thr = NoThreads

\* The caller invokes calculateTotalReturn(bond, heap.A, heap[refT1], horizonYears).
CallTotalReturnOn(bond, refT1, horizonYears) ==
    /\ call' = [op |-> "calculateTotalReturn", bond |-> bond,
                horizonYears |-> horizonYears, curveT1 |-> refT1]
    /\ Return(calculateTotalReturn(cachedSpline, bond, heap["A"], "A",
                                   heap[refT1], refT1, horizonYears))

NextMarket ==
    /\ call.op # "calculateTotalReturn"
    /\ \/ \E ref \in Refs, c \in MarketCurves : ReplaceCurve(ref, c)
       \/ \E ref \in Refs, c \in MarketCurves : MutateInPlace(ref, c)
       \/ \E ref \in Refs : CallInterpolateRate(ref, Num(1))
       \/ \E bond \in MarketBonds, refT1 \in Refs, h \in MarketHorizons :
              CallTotalReturnOn(bond, refT1, h)

SpecMarket == InitMarket /\ [][NextMarket]_vars

\* C26 (unchanged market): a calculateTotalReturn call whose curveT1 has the
\* points of its curveT0, as the same array or as another one, and whose
\* start price is a non-zero number, returns durationReturnComponent = 0 and
\* convexityShapeReturnComponent = 0, the whole price return being rolldown.
C26_UnchangedMarket ==
    (TotalReturned /\ heap[call.curveT1] = heap["A"] /\ StartPriceDivides) =>
        /\ ret.durationDiff = 0 /\ ret.shapeDiff = 0
        /\ ret.result.durationReturnComponent = 0
        /\ ret.result.convexityShapeReturnComponent = 0
        /\ ret.result.priceReturnComponent = ret.result.rolldownReturnComponent

\* The constant by which curveT1 lies above curveT0 at the first node.
MarketMove == heap[call.curveT1][1].rate - heap["A"][1].rate

\* curveT1 is curveT0 moved in parallel by a constant other than zero.
PureParallelShift ==
    /\ MarketMove # 0
    /\ heap[call.curveT1] = MovedBy(heap["A"], MarketMove)

\* C27 (pure parallel shift): a calculateTotalReturn call on a bond alive at
\* the horizon whose curveT1 is curveT0 with the same constant c added to
\* every node rate computes the shift c at the remaining maturity, up to
\* the rounding of the two rates read (one grid step), and builds a parallel
\* curve with the tenors of curveT1 and its rates up to that step; the
\* parallel price is the end price up to the two grid steps that step is
\* worth, and convexityShapeReturnComponent is zero.
C27_PureParallelShift ==
    (TotalReturned /\ ret.shifted /\ PureParallelShift /\ StartPriceDivides) =>
        /\ Abs(ret.shift - MarketMove) <= 1
        /\ \A i \in 1..Len(heap["A"]) :
               /\ ParallelCurve(heap["A"], ret.shift)[i].tenor
                      = heap[call.curveT1][i].tenor
               /\ Abs(ParallelCurve(heap["A"], ret.shift)[i].rate
                          - heap[call.curveT1][i].rate) <= 1
        /\ Abs(ret.priceParallelDirty - ret.result.endPriceDirty) <= 2
        /\ Abs(ret.shapeDiff) <= 2
        /\ ret.result.convexityShapeReturnComponent = 0

\* A bond alive at the horizon with the market down by 1.2345 percent at
\* every node: the shift is found and the price rises by duration alone.
C27_Witness ==
    /\ TotalReturned /\ ret.shifted /\ PureParallelShift /\ StartPriceDivides
    /\ heap["A"] = Rising /\ MarketMove = -(Num(1) + 2345)
    /\ Abs(ret.shift - MarketMove) <= 1
    /\ ret.result.durationReturnComponent > 0
    /\ ret.result.convexityShapeReturnComponent = 0

----------------------------------------------------------------------------
(* SpecFrame: what one kernel call leaves in the objects its caller passed: *)
(* the two curve arrays, with their points in ascending or descending order *)
(* of tenor, and the bond. The statements of the kernel that call a         *)
(* mutating method or build from an argument are the sort of line 99 and    *)
(* the map of line 306; the other writes go to arrays the kernel made       *)
(* itself (ms, ks, cashFlows) and to cachedSpline.                          *)

\* curve.sort(...) with no spread: the caller's array is the one sorted.
SortWithoutSpread(curve) == [curve |-> SortByTenor(curve), sorted |-> SortByTenor(curve)]

\* const sorted = [...curve].sort(...): the spread makes a new array and sort
\* orders that one. The caller's array and the new array after the statement.
SpreadSort(curve) == [curve |-> curve, sorted |-> SortByTenor(curve)]

\* curveT0.map(p => ({ ...p, rate: p.rate + shift })): a new array of new
\* points. The caller's array and the new array after the statement.
MapParallel(curveT0, shift) ==
    [curveT0 |-> curveT0, curveParallel |-> ParallelCurve(curveT0, shift)]

\* const { couponRate, maturityYears, frequency, faceValue } = bond: four
\* reads. The caller's bond and the locals after the statement.
Destructure(bond) ==
    [bond |-> bond, couponRate |-> bond.couponRate, maturityYears |-> bond.maturityYears,
     frequency |-> bond.frequency, faceValue |-> bond.faceValue]

\* The caller's array after the interpolateRate calls made on it, the first
\* of which missed the cache and sorted: read says whether there was one.
ArrayAfterReads(curve, read) == IF read THEN SpreadSort(curve).curve ELSE curve

\* curveT0 after calculateTotalReturn with the result r: read by the start
\* price, and mapped if the shift was taken.
CurveT0After(curveT0, r) ==
    IF r.shifted
    THEN MapParallel(ArrayAfterReads(curveT0, r.reads > 0), r.shift).curveT0
    ELSE ArrayAfterReads(curveT0, r.reads > 0)

\* curveT1 after calculateTotalReturn with the result r: read by the end
\* price of a bond alive at the horizon and by the reinvested coupons.
CurveT1After(curveT1, r) == ArrayAfterReads(curveT1, r.endFlows > 0 \/ r.compounded > 0)

FrameRefs == Refs \cup {"bond"}

FrameCurves == {Rising, Reverse(Rising), Falling, Reverse(Falling), Empty}

InitFrame ==
    /\ \E a \in FrameCurves, b \in FrameCurves, bond \in MarketBonds :
           heap = [r \in FrameRefs |->
                      IF r = "A" THEN a ELSE IF r = "B" THEN b ELSE bond]
    /\ cachedSpline = NoCache
    /\ call = NoCall
    /\ ret = NoRet
    /\ thr = NoThreads

\* The caller takes the result r of interpolateRate(heap[ref], t).
FrameRateReturned(ref, t, r) ==
    /\ cachedSpline' = r.cache
    /\ call' = [op |-> "interpolateRate", curve |-> ref, t |-> t]
    /\ ret' = [thrown |-> r.thrown, value |-> r.value]
    /\ heap' = [heap EXCEPT ![ref] = ArrayAfterReads(heap[ref], TRUE)]
    /\ UNCHANGED thr

\* The caller invokes interpolateRate(heap[ref], t).
FrameInterpolateRate(ref, t) ==
    FrameRateReturned(ref, t, interpolateRate(cachedSpline, heap[ref], ref, t))

\* The caller takes the result r of calculateBondPrice.
FramePriceReturned(ref, settlementShift, r) ==
    /\ cachedSpline' = r.cache
    /\ call' = [op |-> "calculateBondPrice", bond |-> heap["bond"], curve |-> ref,
                settlementShift |-> settlementShift]
    /\ ret' = r
    /\ heap' = [heap EXCEPT ![ref] = ArrayAfterReads(heap[ref], r.reads > 0),
                            !["bond"] = Destructure(heap["bond"]).bond]
    /\ UNCHANGED thr

\* The caller invokes calculateBondPrice(heap.bond, heap[ref], settlementShift).
FrameCalculateBondPrice(ref, settlementShift) ==
    FramePriceReturned(ref, settlementShift,
                       calculateBondPrice(Enter0(cachedSpline), heap["bond"], heap[ref],
                                          ref, settlementShift))

\* The caller takes the result r of calculateTotalReturn.
FrameTotalReturned(horizonYears, r) ==
    /\ cachedSpline' = r.cache
    /\ call' = [op |-> "calculateTotalReturn", bond |-> heap["bond"],
                horizonYears |-> horizonYears, curveT1 |-> "B"]
    /\ ret' = r
    /\ heap' = [heap EXCEPT !["A"] = CurveT0After(heap["A"], r),
                            !["B"] = CurveT1After(heap["B"], r),
                            !["bond"] = Destructure(heap["bond"]).bond]
    /\ UNCHANGED thr

\* The caller invokes calculateTotalReturn(heap.bond, heap.A, heap.B, horizonYears).
FrameCalculateTotalReturn(horizonYears) ==
    FrameTotalReturned(horizonYears,
                       calculateTotalReturn(cachedSpline, heap["bond"], heap["A"], "A",
                                            heap["B"], "B", horizonYears))

NextFrame ==
    /\ call.op = "none"
    /\ \/ \E ref \in Refs, t \in MarketHorizons : FrameInterpolateRate(ref, t)
       \/ \E ref \in Refs, s \in MarketHorizons : FrameCalculateBondPrice(ref, s)
       \/ \E h \in MarketHorizons : FrameCalculateTotalReturn(h)

SpecFrame == InitFrame /\ [][NextFrame]_vars

\* C28 (the kernel never modifies its inputs): a call of interpolateRate,
\* calculateBondPrice or calculateTotalReturn leaves the caller's two curve
\* arrays, the order of their points and every tenor and rate, and the bond
\* parameters as they were: the sort and the parallel shift go to copies.
C28_InputsUnchanged == [][heap' = heap]_vars

\* A total return call made on curves in descending order of tenor, with a
\* shift that is not zero: curveT0 is still in descending order.
C28_Witness ==
    /\ TotalReturned /\ ret.shifted /\ ret.shift # 0
    /\ heap["A"] = Reverse(Rising) /\ heap["B"] = Reverse(Falling)
    /\ SortByTenor(heap["A"]) # heap["A"]
    /\ heap["bond"] = call.bond

----------------------------------------------------------------------------
(* SpecApp: the state of the App component under its handlers. heap holds   *)
(* the component's useState cells; ret holds what the render that follows   *)
(* each state change computes with useMemo and passes to the kernel:        *)
(* totalCurveT0, totalCurveT1, and the bond and horizon of the              *)
(* calculateTotalReturn call. The kernel's own run is the subject of the    *)
(* specifications above.                                                    *)

MaxTypedYears == 2    \* maturities typed: half a year, 1..MaxTypedYears years, 10 years

TENORS == <<Num(0), Num(2), Num(5), Num(10), Num(20), Num(30)>>

\* A curve with the nodes of TENORS and the rates given in hundredths.
Hundredths(rates) == [i \in 1..Len(TENORS) |-> Point(TENORS[i], rates[i] * (SCALE \div 100))]
\* A spread curve with the nodes of TENORS and the spreads given in bps.
Bps(spreads) == [i \in 1..Len(TENORS) |-> Point(TENORS[i], Num(spreads[i]))]

DEFAULT_CURVE_POINTS == Hundredths(<<435, 410, 425, 450, 480, 495>>)

SPREAD_PRESETS ==
    [BMARK |-> Bps(<<0, 0, 0, 0, 0, 0>>),
     AA |-> Bps(<<30, 45, 60, 75, 85, 90>>),
     A |-> Bps(<<50, 70, 90, 110, 125, 130>>),
     BBB |-> Bps(<<85, 110, 135, 150, 165, 175>>)]

DEFAULT_SPREAD_POINTS == SPREAD_PRESETS.BBB

\* spread.find(s => s.tenor === tenor): the index of the first such point,
\* 0 for undefined.
FindTenor(spread, tenor) ==
    IF \E i \in 1..Len(spread) : spread[i].tenor = tenor
    THEN CHOOSE i \in 1..Len(spread) :
             /\ spread[i].tenor = tenor
             /\ \A j \in 1..(i - 1) : spread[j].tenor # tenor
    ELSE 0

\* The spread in bps combineCurves adds at a benchmark tenor.
spreadVal(spread, tenor) ==
    IF FindTenor(spread, tenor) = 0 THEN 0 ELSE spread[FindTenor(spread, tenor)].rate

combineCurves(benchmark, spread) ==
    [i \in 1..Len(benchmark) |->
        Point(benchmark[i].tenor,
              Add(benchmark[i].rate, Div(spreadVal(spread, benchmark[i].tenor), Num(100))))]

\* WithRate with the new value written to the node's tenor.
WithTenor(curve, tenor, newRate) ==
    [i \in 1..Len(curve) |->
        IF curve[i].tenor = tenor THEN Point(newRate, curve[i].rate) ELSE curve[i]]

\* curve.map(p => p.tenor === tenor ? { ...p, rate: newRate } : p)
WithRate(curve, tenor, newRate) ==
    [i \in 1..Len(curve) |->
        IF curve[i].tenor = tenor THEN Point(curve[i].tenor, newRate) ELSE curve[i]]

\* The curve applyScenario(type, amount) sets as curveT1.
ScenarioCurve(curveT0, type, amount) ==
    IF type = "parallel"
    THEN [i \in 1..Len(curveT0) |->
             Point(curveT0[i].tenor, Add(curveT0[i].rate, amount))]
    ELSE IF type = "steepener"
    THEN [i \in 1..Len(curveT0) |->
             Point(curveT0[i].tenor,
                   Add(curveT0[i].rate,
                       Mul(Div(Sub(curveT0[i].tenor, Num(5)), Num(10)), amount)))]
    ELSE IF type = "flattener"
    THEN [i \in 1..Len(curveT0) |->
             Point(curveT0[i].tenor,
                   Add(curveT0[i].rate,
                       Mul(Mul(Div(Sub(curveT0[i].tenor, Num(5)), Num(10)), amount),
                           Num(-1))))]
    ELSE curveT0

\* The render: the useMemo values and the arguments of calculateTotalReturn.
Render(state) ==
    [thrown |-> FALSE,
     totalCurveT0 |-> combineCurves(state.curveT0, state.spreadT0),
     totalCurveT1 |-> combineCurves(state.curveT1, state.spreadT0),
     bond |-> state.bond,
     horizonYears |-> state.horizonYears]

InitialState ==
    [curveT0 |-> DEFAULT_CURVE_POINTS,
     spreadT0 |-> DEFAULT_SPREAD_POINTS,
     bond |-> [couponRate |-> Num(5) + Num(1) \div 2, maturityYears |-> Num(10),
               frequency |-> Num(2), faceValue |-> Num(100)],
     curveT1 |-> DEFAULT_CURVE_POINTS,
     horizonYears |-> Num(1),
     shiftType |-> "custom"]

InitApp ==
    /\ heap = InitialState
    /\ ret = Render(InitialState)
    /\ cachedSpline = NoCache
    /\ call = NoCall
    /\ thr = NoThreads

\* A handler leaves the state next, and the component renders.
SetState(next) ==
    /\ heap' = next
    /\ ret' = Render(next)
    /\ call' = [op |-> "setState"]
    /\ UNCHANGED <<cachedSpline, thr>>

\* What the user can enter: the node moved, slider and drag positions, and
\* numbers typed into the maturity field within the field's min.
EditedTenors == {TENORS[2]}
T0SliderValues == {Num(8)}
SpreadSliderValues == {Num(500)}
DragRates == {Num(-2)}
MaturityInputs == {Num(1) \div 2, Num(10)} \cup {Num(y) : y \in 1..MaxTypedYears}
FrequencyOptions == {Num(1), Num(2), Num(4)}
ScenarioButtons ==
    {<<"parallel", Num(1) \div 2>>, <<"parallel", -(Num(1) \div 2)>>,
     <<"flattener", Num(1)>>, <<"steepener", Num(1)>>}

\* The positions of the horizon slider: min 0.1, max maturityYears - 0.1,
\* step 0.1.
HorizonStep == Num(1) \div 10
HorizonSliderValues(maturityYears) ==
    {k * HorizonStep : k \in 1..((maturityYears - HorizonStep) \div HorizonStep)}
HorizonStops == {HorizonStep, 4 * HorizonStep, 9 * HorizonStep, 19 * HorizonStep, 99 * HorizonStep}

handleT0Change(tenor, newRate) ==
    SetState([heap EXCEPT !.curveT0 = WithRate(heap.curveT0, tenor, newRate)])

handleSpreadChange(tenor, newBps) ==
    SetState([heap EXCEPT !.spreadT0 = WithRate(heap.spreadT0, tenor, newBps)])

handleT1Change(tenor, newRate) ==
    SetState([heap EXCEPT !.shiftType = "custom",
                          !.curveT1 = WithRate(heap.curveT1, tenor, newRate)])

applyScenario(type, amount) ==
    SetState([heap EXCEPT !.shiftType = type,
                          !.curveT1 = ScenarioCurve(heap.curveT0, type, amount)])

\* RESET: setCurveT0(DEFAULT_CURVE_POINTS); setCurveT1(DEFAULT_CURVE_POINTS)
Reset ==
    SetState([heap EXCEPT !.curveT0 = DEFAULT_CURVE_POINTS,
                                   !.curveT1 = DEFAULT_CURVE_POINTS])

\* Match T0: setCurveT1([...curveT0]); setShiftType('custom')
MatchT0 ==
    SetState([heap EXCEPT !.curveT1 = heap.curveT0, !.shiftType = "custom"])

\* A preset button: setSpreadT0(preset)
SetSpreadPreset(label) ==
    SetState([heap EXCEPT !.spreadT0 = SPREAD_PRESETS[label]])

\* The maturity input: setBond({...bond, maturityYears: v})
SetMaturity(v) ==
    SetState([heap EXCEPT !.bond.maturityYears = v])

\* The frequency select: setBond({...bond, frequency: parseInt(value)})
SetFrequency(v) ==
    SetState([heap EXCEPT !.bond.frequency = v])

\* The horizon slider: setHorizonYears(parseFloat(value)), value a position
\* of the slider as rendered for the current maturity.
SetHorizonYears(v) ==
    /\ v \in HorizonSliderValues(heap.bond.maturityYears)
    /\ SetState([heap EXCEPT !.horizonYears = v])

NextApp ==
    \/ \E tenor \in EditedTenors, r \in T0SliderValues : handleT0Change(tenor, r)
    \/ \E tenor \in EditedTenors, b \in SpreadSliderValues : handleSpreadChange(tenor, b)
    \/ \E tenor \in EditedTenors, r \in DragRates : handleT1Change(tenor, r)
    \/ \E s \in ScenarioButtons : applyScenario(s[1], s[2])
    \/ Reset
    \/ MatchT0
    \/ \E label \in DOMAIN SPREAD_PRESETS : SetSpreadPreset(label)
    \/ \E v \in MaturityInputs : SetMaturity(v)
    \/ \E v \in FrequencyOptions : SetFrequency(v)
    \/ \E v \in HorizonStops : SetHorizonYears(v)

SpecApp == InitApp /\ [][NextApp]_vars

\* C29 (horizon before maturity): in every state the UI reaches through its
\* handlers, the horizon the render passes to calculateTotalReturn is
\* strictly less than the maturityYears of the bond it passes.
C29_HorizonBeforeMaturity == ret.horizonYears < ret.bond.maturityYears

\* C30 (one tenor sequence): after any sequence of UI actions curveT0,
\* curveT1 and spreadT0 hold the same strictly increasing sequence of tenors,
\* combineCurves finds a spread point for every benchmark tenor, and the two
\* curves the render passes to the kernel have unique, ascending tenors.
C30_OneTenorSequence ==
    /\ Tenors(heap.curveT1) = Tenors(heap.curveT0)
    /\ Tenors(heap.spreadT0) = Tenors(heap.curveT0)
    /\ StrictlyIncreasing(Tenors(heap.curveT0))
    /\ \A i \in 1..Len(heap.curveT0) :
           /\ FindTenor(heap.spreadT0, heap.curveT0[i].tenor) # 0
           /\ FindTenor(heap.spreadT0, heap.curveT1[i].tenor) # 0
    /\ UniqueTenors(ret.totalCurveT0) /\ IsCurve(ret.totalCurveT0)
    /\ UniqueTenors(ret.totalCurveT1) /\ IsCurve(ret.totalCurveT1)

\* Every array has been written by a handler: the T0 curve and the spreads
\* by their sliders, the T1 curve by a scenario and then by a drag.
C30_Witness ==
    /\ call.op = "setState"
    /\ heap.curveT0 # DEFAULT_CURVE_POINTS
    /\ \A label \in DOMAIN SPREAD_PRESETS : heap.spreadT0 # SPREAD_PRESETS[label]
    /\ Rates(heap.curveT1) # Rates(heap.curveT0)
    /\ \E i \in 1..Len(heap.curveT1) : heap.curveT1[i].rate \in DragRates
    /\ \E i \in 1..Len(heap.curveT1) :
           heap.curveT1[i].rate \notin DragRates \cup {heap.curveT0[i].rate}

----------------------------------------------------------------------------
(* SpecSchedule: the coupon schedule of calculateTotalReturn in IEEE 754     *)
(* doubles, for maturities and horizons typed as decimals. A tenth of a     *)
(* year is not a binary fraction: the double of 1.1 minus 1 is not the      *)
(* double of 0.1, and the comparisons and Math.ceil of the schedule see the *)
(* difference.                                                              *)
(*                                                                          *)
(* A double x near n twentieths of a year is the pair [n, e] with           *)
(* x = n/20 + e * w exactly, w = 2^-60 / 20. Every double from 2^-6 up is a *)
(* whole number of w, and 1/20 is 2^60 of them.                             *)

MaxScheduleTenths == 15    \* maturities of 1..MaxScheduleTenths tenths of a year

Twentieths == 20

\* 2^j mod 5, for j >= 0.
Pow2Mod5(j) == <<1, 2, 4, 3>>[(j % 4) + 1]

\* x >= 2^k.
AtLeastPow2(x, k) ==
    IF k >= 0
    THEN x.n > Twentieths * 2^k \/ (x.n = Twentieths * 2^k /\ x.e >= 0)
    ELSE x.n * 2^(-k) > Twentieths \/ (x.n * 2^(-k) = Twentieths /\ x.e >= 0)

\* The binary exponent of x: 2^k <= x < 2^(k+1).
Exponent(x) == CHOOSE k \in -6..5 : AtLeastPow2(x, k) /\ ~AtLeastPow2(x, k + 1)

\* The spacing of the doubles with exponent k, 2^(k-52), in units of w.
UlpAt(k) == Twentieths * 2^(k + 8)

\* n/20 modulo two spacings, in units of w: n * 2^60 mod 5 * 2^(k+11).
NominalResidue(n, k) == 2^(k + 11) * (((n % 5) * Pow2Mod5(49 - k)) % 5)

\* The exact value x rounded to the nearest double, ties to even. A value
\* within rounding of zero is the difference of two doubles less than a
\* factor of two apart, which is exact.
RoundToDouble(x) ==
    IF x.n <= 0 THEN x
    ELSE LET k == Exponent(x)
             ulp == UlpAt(k)
             residue == (NominalResidue(x.n, k) + x.e) % (2 * ulp)
             r == residue % ulp
             odd == residue \div ulp = 1
         IN  IF r = 0 THEN x
             ELSE IF 2 * r < ulp \/ (2 * r = ulp /\ ~odd)
             THEN [n |-> x.n, e |-> x.e - r]
             ELSE [n |-> x.n, e |-> x.e + (ulp - r)]

\* The double a decimal literal of n twentieths denotes.
DoubleOf(n) == RoundToDouble([n |-> n, e |-> 0])

\* i * periodLength for a frequency of 1, 2 or 4: a binary fraction, exact.
Periods(i, frequency) == [n |-> i * (Twentieths \div frequency), e |-> 0]

SubD(a, b) == RoundToDouble([n |-> a.n - b.n, e |-> a.e - b.e])
AddD(a, b) == RoundToDouble([n |-> a.n + b.n, e |-> a.e + b.e])
\* x * frequency, a multiplication by a power of two: exact.
TimesFrequency(x, frequency) == [n |-> x.n * frequency, e |-> x.e * frequency]
LeD(a, b) == a.n < b.n \/ (a.n = b.n /\ a.e <= b.e)
GtZeroD(a) == a.n > 0 \/ (a.n = 0 /\ a.e > 0)
CeilD(x) ==
    IF x.n % Twentieths = 0
    THEN x.n \div Twentieths + (IF x.e > 0 THEN 1 ELSE 0)
    ELSE x.n \div Twentieths + 1

\* The income loop's schedule: periodsTotal, firstCouponTime, and the time t
\* of its pass i.
periodsTotal(maturityYears, frequency) == CeilD(TimesFrequency(maturityYears, frequency))
firstCouponTime(maturityYears, frequency) ==
    SubD(maturityYears, Periods(periodsTotal(maturityYears, frequency) - 1, frequency))
CouponTime(maturityYears, frequency, i) ==
    AddD(firstCouponTime(maturityYears, frequency), Periods(i, frequency))

\* The passes of the income loop that add a coupon: t > 0 && t <= horizonYears.
CountedPasses(maturityYears, frequency, horizonYears) ==
    {i \in 0..(periodsTotal(maturityYears, frequency) - 1) :
        /\ GtZeroD(CouponTime(maturityYears, frequency, i))
        /\ LeD(CouponTime(maturityYears, frequency, i), horizonYears)}

\* periodsRemaining of calculateBondPrice(bond, curveT1, horizonYears): the
\* number of cash flows of the end price, none for a matured bond.
periodsRemaining(maturityYears, frequency, settlementShift) ==
    LET remainingTTM == SubD(maturityYears, settlementShift)
    IN  IF ~GtZeroD(remainingTTM) THEN 0
        ELSE CeilD(TimesFrequency(remainingTTM, frequency))

\* What the schedule of one calculateTotalReturn call comes to.
ScheduleOf(maturityTenths, frequency, horizonTenths) ==
    LET maturityYears == DoubleOf(2 * maturityTenths)
        horizonYears == DoubleOf(2 * horizonTenths)
    IN  [thrown |-> FALSE,
         periodsTotal |-> periodsTotal(maturityYears, frequency),
         countedPasses |-> CountedPasses(maturityYears, frequency, horizonYears),
         endFlows |-> periodsRemaining(maturityYears, frequency, horizonYears)]

InitSchedule ==
    /\ heap = [r \in Refs |-> Flat(Num(5))]
    /\ cachedSpline = NoCache
    /\ call = NoCall
    /\ ret = NoRet
    /\ thr = NoThreads

\* The caller invokes calculateTotalReturn on a bond of maturityTenths / 10
\* years with a horizon of horizonTenths / 10 years; ret takes the schedule.
CallSchedule(maturityTenths, frequency, horizonTenths) ==
    /\ call' = [op |-> "schedule", maturityTenths |-> maturityTenths,
                frequency |-> frequency, horizonTenths |-> horizonTenths]
    /\ ret' = ScheduleOf(maturityTenths, frequency, horizonTenths)
    /\ UNCHANGED <<heap, cachedSpline, thr>>

NextSchedule ==
    /\ call.op = "none"
    /\ \E m \in 1..MaxScheduleTenths, f \in Frequencies, h \in 0..MaxScheduleTenths :
           CallSchedule(m, f, h)

SpecSchedule == InitSchedule /\ [][NextSchedule]_vars

ScheduleCalled == call.op = "schedule"

\* C24 (no coupon double counted or lost): for every bond and every horizon
\* with 0 <= horizonYears < maturityYears, each coupon date of the schedule
\* is either counted in couponIncome or a cash flow of the end-of-horizon
\* price, the flows being the last dates of the schedule, never both and
\* never neither; the count in couponIncome plus the number of end-price
\* flows is ceil(maturityYears * frequency).
C24_NoCouponLost ==
    (ScheduleCalled /\ call.horizonTenths < call.maturityTenths) =>
        /\ \A i \in 0..(ret.periodsTotal - 1) :
               (i \in ret.countedPasses) # (i >= ret.periodsTotal - ret.endFlows)
        /\ Cardinality(ret.countedPasses) + ret.endFlows = ret.periodsTotal
        /\ ret.periodsTotal
               = (call.maturityTenths * call.frequency + 9) \div 10

====
